---- MODULE Spec2Model ----
(***************************************************************************)
(* A model of mangatra's detection decoder (src/src/detection.rs), region  *)
(* expander, text layout and compositor (src/src/replacer.rs) and of the   *)
(* request handlers of the web service (src/src/web).                      *)
(*                                                                         *)
(* Numbers that are f32 in the source are fixed-point integers in          *)
(* hundredths (0.4 is 40, 320.0 is 32000).  A Mat is a sequence of rows of *)
(* pixels; the empty Mat (rows = cols = 0) is << >>.  A region cut with    *)
(* Mat::roi is a view and is kept as the record [x, y, cols, rows].        *)
(***************************************************************************)
EXTENDS Integers, Sequences, FiniteSets, TLC

VARIABLES
    pc,             \* position of the operation under way
    image_size,     \* <<cols, rows>> of the page given to run_inference
    padding,        \* Detector.padding / Replacer.padding
    output,         \* the inference tensor: a sequence of rows of NumCols values
    boxes,          \* Detections.boxes, each with the tensor row it came from
    box_i,          \* index of the next box of the padding loop
    rects,          \* the padded_bbox computed for each box handled so far
    text_regions,   \* run_inference's text_regions
    origins,        \* run_inference's origins
    response,       \* what the handler built from (text_regions, origins)
    original_image, \* Replacer.original_image: the page as a Mat
    overflow_checks,\* whether the build panics on integer overflow (debug) or wraps
    seed,           \* the arguments of expand_text_region: [x, y, width, height]
    corners,        \* its four corners and run lengths: [tl, tr, bl, br], each [x, y, len]
    expanded,       \* what expand_text_region returned
    blank_mats,     \* the ReplacementMats of clean_page
    patch_i,        \* index of the next patch of the replace loop
    temp_image,     \* temp_image of clean_page / the result of replace_region
    prev_image,     \* the background of the last replace_region call
    second,         \* the result of a second clean_page on the cleaned page
    text,           \* the translated text of one region, a sequence of characters
    canvas,         \* the canvas of write_text: [width, height]
    temp_lines,     \* the lines after the first pass of write_text
    lines,          \* the lines after the second pass
    requests,       \* per request: its input, the handler's position and response
    chans,          \* the oneshot channels created so far
    pool,           \* the closures given to rayon::spawn and not yet run
    sent_order,      \* the channels in the order their messages were sent
    batch,          \* the batch run: [mode, single, pages]
    page_st,        \* per page of the batch: "todo" or "done"
    written,        \* the output files written, in order: [path, page]
    reported,       \* the pages whose error was printed, in order
    nms_cands,      \* the candidates given to nms_boxes: [box, conf]
    nms_kept,       \* the indices nms_boxes returned
    nms_again,      \* the indices nms_boxes returns for the kept candidates
    extracted_text, \* the strings the OCR returned for the regions of a page
    text_pairs,     \* the IndexMap built from them: a sequence of <<key, value>>
    applied,        \* per region, the key of the entry given to it on the way back
    cfg,            \* the configuration given to Config::get_output_path
    cfg_result,     \* what get_output_path returned
    rep_text,       \* Replacer.text: [some, list], the translated texts
    patches,        \* what write_text / get_blank_mats returned: [st, mats]
    listing,        \* the directory walks of replace mode: [images, texts], file stems
    pairs,          \* per replace_text call: <<stem of the image, stem of the text file>>
    font_scale      \* the scale chosen by write_text: [height, dx, dy]

detect_vars == <<image_size, output, boxes, box_i, rects, response>>

expand_vars == <<seed, corners, expanded>>

clean_vars == <<blank_mats, patch_i, temp_image, prev_image, second>>

replacer_vars == <<original_image, overflow_checks, expand_vars, clean_vars>>

layout_vars == <<text, canvas, temp_lines, lines, font_scale>>

server_vars == <<requests, chans, pool, sent_order>>

batch_vars == <<batch, page_st, written, reported>>

nms_vars == <<nms_cands, nms_kept, nms_again>>

map_vars == <<extracted_text, text_pairs, applied>>

cfg_vars == <<cfg, cfg_result>>

patch_vars == <<rep_text, patches>>

pair_vars == <<listing, pairs>>

more_vars == <<patch_vars, pair_vars>>

tool_vars == <<batch_vars, nms_vars, map_vars, cfg_vars, more_vars>>

vars == <<pc, padding, text_regions, origins, detect_vars, replacer_vars, layout_vars,
          server_vars, tool_vars>>

-----------------------------------------------------------------------------
(* Bounds of the model *)

MaxRows == 2

\* the pages of the replacer are PageCols x PageRows pixels
PageCols == 5
PageRows == 5

\* the longest list of regions / patches of a page
MaxRegions == 2

-----------------------------------------------------------------------------
(* Arithmetic helpers *)

\* `as i32` of an f32 quotient a / b (b > 0): truncation toward zero
TruncDiv(a, b) == IF a >= 0 THEN a \div b ELSE -((-a) \div b)

MaxOf(a, b) == IF a >= b THEN a ELSE b

MinOf(a, b) == IF a <= b THEN a ELSE b

-----------------------------------------------------------------------------
(* Detector: src/src/detection.rs *)

DEFAULT_PADDING == 10

\* the side of the square network input, and the length of a tensor row
InputSide == 640
NumCols == 10

\* cv::Mat::roi's assertion on the rectangle
RoiOk(cols, rows, r) ==
    /\ 0 <= r.x /\ 0 <= r.width /\ r.x + r.width <= cols
    /\ 0 <= r.y /\ 0 <= r.height /\ r.y + r.height <= rows

\* the view Mat::roi returns: an empty rectangle gives the empty Mat
RoiView(r) ==
    IF r.width <= 0 \/ r.height <= 0
    THEN [x |-> 0, y |-> 0, cols |-> 0, rows |-> 0]
    ELSE [x |-> r.x, y |-> r.y, cols |-> r.width, rows |-> r.height]

\* a variant that leaves the image as it is, without the padding to a square
FormatImageUnpadded(size) == size

\* format_image: the page is padded to a square of side max(cols, rows)
FormatImage(size) == <<MaxOf(size[1], size[2]), MaxOf(size[1], size[2])>>

\* 0-based index of the first maximum of a sequence
RECURSIVE ArgMaxFrom(_, _, _)
ArgMaxFrom(v, i, best) ==
    IF i > Len(v) THEN best - 1
    ELSE ArgMaxFrom(v, i + 1, IF v[i] > v[best] THEN i ELSE best)

\* cv::min_max_loc on a Vector<f32>, which OpenCV reads as a matrix of one
\* row: the location of the maximum is the point (x = column, y = 0)
MinMaxLoc(v) == [x |-> ArgMaxFrom(v, 1, 1), y |-> 0]

\* max_indx.to_vec2()[1]: the second component of the point
ClassId(row) == MinMaxLoc(row).y

\* the class scores of a row: the columns after cx, cy, w, h, object_conf
ClassScores(row) == SubSeq(row, 6, NumCols)

\* the two tests a row has to pass
RowAccepted(row) ==
    /\ row[5] >= 40
    /\ row[ClassId(row) + 1] > 25

\* a variant that takes (cx, cy) for the top left corner
DecodeBoxNoHalf(row, side) ==
    [x      |-> TruncDiv(row[1] * side[1], InputSide * 100),
     y      |-> TruncDiv(row[2] * side[2], InputSide * 100),
     width  |-> TruncDiv(row[3] * side[1], InputSide * 100),
     height |-> TruncDiv(row[4] * side[2], InputSide * 100)]

\* the box decoded from an accepted row; factor = side / 640
DecodeBox(row, side) ==
    [x      |-> TruncDiv((2 * row[1] - row[3]) * side[1], 2 * InputSide * 100),
     y      |-> TruncDiv((2 * row[2] - row[4]) * side[2], 2 * InputSide * 100),
     width  |-> TruncDiv(row[3] * side[1], InputSide * 100),
     height |-> TruncDiv(row[4] * side[2], InputSide * 100)]

\* the candidates in row order: [row index, box, confidence]
RECURSIVE Candidates(_, _, _)
Candidates(out, side, i) ==
    IF i > Len(out) THEN << >>
    ELSE (IF RowAccepted(out[i])
          THEN << [row |-> i, box |-> DecodeBox(out[i], side), conf |-> out[i][5]] >>
          ELSE << >>) \o Candidates(out, side, i + 1)

Area(r) == r.width * r.height

\* cv::Rect's a & b
RectAnd(a, b) ==
    LET x1 == MaxOf(a.x, b.x)
        y1 == MaxOf(a.y, b.y)
        w  == MinOf(a.x + a.width, b.x + b.width) - x1
        h  == MinOf(a.y + a.height, b.y + b.height) - y1
    IN IF w <= 0 \/ h <= 0
       THEN [x |-> 0, y |-> 0, width |-> 0, height |-> 0]
       ELSE [x |-> x1, y |-> y1, width |-> w, height |-> h]

\* rectOverlap(a, b) > 0.45, the overlap being 1 - jaccardDistance(a, b)
OverlapAbove(a, b) ==
    LET inter == Area(RectAnd(a, b))
        union == Area(a) + Area(b) - inter
    IN IF Area(a) + Area(b) <= 0 THEN TRUE
       ELSE 100 * inter > 45 * union

\* the candidate indices above the score threshold, by descending score
\* (stable: equal scores keep their order)
RECURSIVE SortedByScore(_, _)
SortedByScore(cands, left) ==
    IF left = {} THEN << >>
    ELSE LET top == CHOOSE i \in left :
                        \A j \in left :
                            \/ cands[i].conf > cands[j].conf
                            \/ cands[i].conf = cands[j].conf /\ i <= j
         IN <<top>> \o SortedByScore(cands, left \ {top})

RECURSIVE NmsFast(_, _, _)
NmsFast(cands, order, kept) ==
    IF order = << >> THEN kept
    ELSE LET idx  == Head(order)
             keep == \A k \in 1..Len(kept) :
                         ~OverlapAbove(cands[idx].box, cands[kept[k]].box)
         IN NmsFast(cands, Tail(order), IF keep THEN Append(kept, idx) ELSE kept)

\* a variant whose loop stops one candidate short
NmsBoxesSkipLast(cands) ==
    NmsFast(cands,
            SortedByScore(cands, {i \in 1..(Len(cands) - 1) : cands[i].conf > 25}),
            << >>)

\* dnn::nms_boxes(boxes, confidences, 0.25, 0.45, indices, 1.0, 0)
NmsBoxes(cands) ==
    NmsFast(cands,
            SortedByScore(cands, {i \in 1..Len(cands) : cands[i].conf > 25}),
            << >>)

\* get_detections: the kept candidates, in the order of the NMS indices
GetDetections(size, out) ==
    LET cands == Candidates(out, FormatImage(size), 1)
        idx   == NmsBoxes(cands)
    IN [k \in 1..Len(idx) |-> cands[idx[k]]]

\* the padding test of run_inference
PadTest(bbox, p, width, height) ==
    /\ bbox.width + p * 2 < width
    /\ bbox.height + p * 2 < height
    /\ bbox.x - p > 0
    /\ bbox.y - p > 0

\* padded_bbox of one loop iteration
PaddedBbox(bbox, p, width, height) ==
    IF PadTest(bbox, p, width, height)
    THEN [x |-> bbox.x - p, y |-> bbox.y - p,
          width |-> bbox.width + p * 2, height |-> bbox.height + p * 2]
    ELSE bbox

-----------------------------------------------------------------------------
(* Detector::run_inference and the detect / extract handlers, step by step *)

\* tensor entries, in hundredths
ConfValues == {30, 40, 90}

\* the class scores of a row (columns 6..10)
ClassValues == { <<25, 25, 25, 25, 25>>, <<10, 10, 10, 10, 90>> }

\* (cx, cy, w, h) of a row, in network-input pixels
Geometries ==
    { <<320, 320, 100, 50>>, <<330, 320, 100, 50>>, <<610, 320, 50, 50>>,
      <<20, 320, 60, 50>>,   <<320, 320, 0, 50>>,   <<5, 320, 0, 50>>,
      <<320, 600, 60, 60>> }

\* (cx, cy, w, h) of a row in hundredths of a pixel: a box whose corners and
\* sides are not whole pixels, its left edge negative
FineGeometries == { <<2000, 32000, 6150, 5050>> }

TensorRows ==
    { <<100 * g[1], 100 * g[2], 100 * g[3], 100 * g[4], c>> \o k :
        g \in Geometries, c \in ConfValues, k \in ClassValues }
    \cup { <<g[1], g[2], g[3], g[4], c>> \o k :
             g \in FineGeometries, c \in ConfValues, k \in ClassValues }

RECURSIVE SeqsUpTo(_, _)
SeqsUpTo(S, n) ==
    IF n = 0 THEN { << >> }
    ELSE LET shorter == SeqsUpTo(S, n - 1)
         IN shorter \cup { Append(s, e) : s \in {t \in shorter : Len(t) = n - 1}, e \in S }

ImageSizes == { <<640, 640>>, <<1280, 640>> }

Paddings == { DEFAULT_PADDING, 100 }

LayoutIdle ==
    /\ text = << >>
    /\ canvas = [width |-> 0, height |-> 0]
    /\ temp_lines = << >>
    /\ lines = << >>
    /\ font_scale = [height |-> 0, dx |-> 0, dy |-> 0]

ServerIdle ==
    /\ requests = << >>
    /\ chans = << >>
    /\ pool = {}
    /\ sent_order = << >>

BatchIdle ==
    /\ batch = [mode |-> "none", single |-> TRUE, pages |-> << >>]
    /\ page_st = << >>
    /\ written = << >>
    /\ reported = << >>

NmsIdle ==
    /\ nms_cands = << >>
    /\ nms_kept = << >>
    /\ nms_again = << >>

MapIdle ==
    /\ extracted_text = << >>
    /\ text_pairs = << >>
    /\ applied = << >>

CfgIdle ==
    /\ cfg = [mode |-> "none"]
    /\ cfg_result = [st |-> "none"]

PatchIdle ==
    /\ rep_text = [some |-> FALSE]
    /\ patches = [st |-> "none"]

PairIdle ==
    /\ listing = [images |-> << >>, texts |-> << >>]
    /\ pairs = << >>

MoreIdle == PatchIdle /\ PairIdle

ToolIdle == BatchIdle /\ NmsIdle /\ MapIdle /\ CfgIdle /\ MoreIdle

ReplacerIdle ==
    /\ original_image = << >>
    /\ overflow_checks = FALSE
    /\ seed = [x |-> 0, y |-> 0, width |-> 0, height |-> 0]
    /\ corners = << >>
    /\ expanded = [st |-> "none"]
    /\ blank_mats = << >>
    /\ patch_i = 0
    /\ temp_image = << >>
    /\ prev_image = << >>
    /\ second = [st |-> "none"]

DetectIdle ==
    /\ image_size = <<0, 0>>
    /\ output = << >>
    /\ boxes = << >>
    /\ box_i = 0
    /\ rects = << >>
    /\ response = [kind |-> "none"]

\* the network has produced its tensor for a page
InitDetect ==
    /\ pc = "forward"
    /\ image_size \in ImageSizes
    /\ padding \in Paddings
    /\ output \in { t \in SeqsUpTo(TensorRows, MaxRows) : Len(t) = MaxRows }
    /\ boxes = << >>
    /\ box_i = 0
    /\ rects = << >>
    /\ text_regions = << >>
    /\ origins = << >>
    /\ response = [kind |-> "none"]
    /\ ReplacerIdle
    /\ LayoutIdle
    /\ ServerIdle
    /\ ToolIdle

\* detection.rs 63-65: get_detections on the formatted image
DecodeStep ==
    /\ pc = "forward"
    /\ boxes' = GetDetections(image_size, output)
    /\ box_i' = 1
    /\ pc' = "crop"
    /\ UNCHANGED <<image_size, padding, output, rects, text_regions, origins, response>>
    /\ UNCHANGED <<replacer_vars, layout_vars, server_vars, tool_vars>>

\* detection.rs 87-108: one iteration of the padding loop, the roi succeeding
CropStep ==
    /\ pc = "crop"
    /\ box_i <= Len(boxes)
    /\ LET r == PaddedBbox(boxes[box_i].box, padding, image_size[1], image_size[2])
       IN /\ RoiOk(image_size[1], image_size[2], r)
          /\ rects' = Append(rects, r)
          /\ text_regions' = Append(text_regions, RoiView(r))
          /\ origins' = Append(origins, <<r.x, r.y>>)
    /\ box_i' = box_i + 1
    /\ UNCHANGED <<pc, image_size, padding, output, boxes, response>>
    /\ UNCHANGED <<replacer_vars, layout_vars, server_vars, tool_vars>>

\* detection.rs 104-106: Mat::roi fails and run_inference returns the error
CropFail ==
    /\ pc = "crop"
    /\ box_i <= Len(boxes)
    /\ LET r == PaddedBbox(boxes[box_i].box, padding, image_size[1], image_size[2])
       IN /\ ~RoiOk(image_size[1], image_size[2], r)
          /\ rects' = Append(rects, r)
    /\ pc' = "err"
    /\ UNCHANGED <<image_size, padding, output, boxes, box_i, text_regions, origins,
                   response>>
    /\ UNCHANGED <<replacer_vars, layout_vars, server_vars, tool_vars>>

\* detection.rs 110: Ok((text_regions, origins))
ReturnStep ==
    /\ pc = "crop"
    /\ box_i > Len(boxes)
    /\ pc' = "ok"
    /\ UNCHANGED <<image_size, padding, output, boxes, box_i, rects, text_regions,
                   origins, response>>
    /\ UNCHANGED <<replacer_vars, layout_vars, server_vars, tool_vars>>

\* the string the OCR backend reads in a region (one per region, in order)
OcrText(region) == <<"text", region.x, region.y, region.cols, region.rows>>

\* the box a handler builds from one (image_region, origin) pair
BoxStruct(region, origin) ==
    [x |-> origin[1], y |-> origin[2], width |-> region.cols, height |-> region.rows]

\* izip! stops at the shortest of its lists
ZipLen2(a, b) == MinOf(Len(a), Len(b))

\* http_detect 229-254: the boxes of the response
DetectBoxes(regions, orig) ==
    [i \in 1..ZipLen2(regions, orig) |-> BoxStruct(regions[i], orig[i])]

\* a variant that pairs the texts with the boxes in reverse order
ExtractDetectionsReversed(texts, regions, orig) ==
    LET n == MinOf(Len(texts), ZipLen2(regions, orig))
    IN [i \in 1..n |->
           [text |-> texts[i],
            bounding_box |-> BoxStruct(regions[n + 1 - i], orig[n + 1 - i])]]

\* http_extract 123-155: the detections of the response
ExtractDetections(texts, regions, orig) ==
    [i \in 1..MinOf(Len(texts), ZipLen2(regions, orig)) |->
        [text |-> texts[i], bounding_box |-> BoxStruct(regions[i], orig[i])]]

\* Ocr::extract_text: one string per region, in the order of the regions
OcrExtract(regions) == [i \in 1..Len(regions) |-> OcrText(regions[i])]

HttpDetect ==
    /\ pc = "ok"
    /\ response' = [kind |-> "detect", boxes |-> DetectBoxes(text_regions, origins)]
    /\ pc' = "responded"
    /\ UNCHANGED <<image_size, padding, output, boxes, box_i, rects, text_regions,
                   origins>>
    /\ UNCHANGED <<replacer_vars, layout_vars, server_vars, tool_vars>>

HttpExtract ==
    /\ pc = "ok"
    /\ response' = [kind |-> "extract",
                    detections |-> ExtractDetections(OcrExtract(text_regions),
                                                     text_regions, origins)]
    /\ pc' = "responded"
    /\ UNCHANGED <<image_size, padding, output, boxes, box_i, rects, text_regions,
                   origins>>
    /\ UNCHANGED <<replacer_vars, layout_vars, server_vars, tool_vars>>

NextDetect == DecodeStep \/ CropStep \/ CropFail \/ ReturnStep \/ HttpDetect \/ HttpExtract

SpecDetect == InitDetect /\ [][NextDetect]_vars

-----------------------------------------------------------------------------
(* Claims about the detector *)

MaxClassScore(row) ==
    LET cs == ClassScores(row)
    IN cs[ArgMaxFrom(cs, 1, 1) + 1]

\* C1: every box returned by get_detections comes from a row with
\* object_conf >= 0.4 whose largest class score (columns 6..10 only) is > 0.25
C1_DecoderThresholds ==
    \A k \in 1..Len(boxes) :
        /\ output[boxes[k].row][5] >= 40
        /\ MaxClassScore(output[boxes[k].row]) > 25

\* x_factor and y_factor of get_detections, in hundredths
Factors(size) ==
    <<(100 * FormatImage(size)[1]) \div InputSide, (100 * FormatImage(size)[2]) \div InputSide>>

\* trunc(v), v in millionths (a product of three numbers in hundredths)
Trunc6(v) == TruncDiv(v, 1000000)

\* C14: the box of an accepted row (cx, cy, w, h) is left = trunc((cx -
\* 0.5 w) x_factor), top = trunc((cy - 0.5 h) y_factor), width = trunc(w
\* x_factor), height = trunc(h y_factor); the row (320, 320, 100, 50) with
\* confidence 0.9 and largest class score 0.9, first on a 640x640 image, is
\* accepted and decodes to (270, 295, 100, 50)
C14_DecodeFormula ==
    /\ \A k \in 1..Len(boxes) :
        LET row == output[boxes[k].row]
            f == Factors(image_size)
        IN /\ boxes[k].box.x = Trunc6((100 * row[1] - 50 * row[3]) * f[1])
           /\ boxes[k].box.y = Trunc6((100 * row[2] - 50 * row[4]) * f[2])
           /\ boxes[k].box.width = Trunc6(100 * row[3] * f[1])
           /\ boxes[k].box.height = Trunc6(100 * row[4] * f[2])
    /\ (/\ pc # "forward"
        /\ image_size = <<640, 640>>
        /\ SubSeq(output[1], 1, 5) = <<32000, 32000, 10000, 5000, 90>>
        /\ MaxClassScore(output[1]) = 90)
       => /\ Len(boxes) >= 1
          /\ boxes[1].row = 1
          /\ boxes[1].box = [x |-> 270, y |-> 295, width |-> 100, height |-> 50]

\* the scenario row decoded on the square page, followed by a row whose
\* left edge -10.75 and width 61.5 are truncated toward zero
C14_Witness ==
    /\ pc = "crop"
    /\ Len(boxes) = 2
    /\ image_size = <<640, 640>>
    /\ SubSeq(output[1], 1, 5) = <<32000, 32000, 10000, 5000, 90>>
    /\ boxes[1].box = [x |-> 270, y |-> 295, width |-> 100, height |-> 50]
    /\ SubSeq(output[2], 1, 4) = <<2000, 32000, 6150, 5050>>
    /\ boxes[2].box = [x |-> -10, y |-> 294, width |-> 61, height |-> 50]

\* the box enlarged by the padding on every side
Enlarged(b, p) ==
    [x |-> b.x - p, y |-> b.y - p, width |-> b.width + 2 * p, height |-> b.height + 2 * p]

\* C2: a box is enlarged by the padding only if the enlarged box lies inside
\* the image on all four sides; otherwise it keeps its unpadded coordinates
C2_PaddedOnlyIfInside ==
    \A k \in 1..Len(rects) :
        ~RoiOk(image_size[1], image_size[2], Enlarged(boxes[k].box, padding))
            => rects[k] = boxes[k].box

\* C3: every box of a successful run_inference has positive width and height
\* and lies inside the source image
C3_BoxesPositiveInside ==
    pc \in {"ok", "responded"} =>
        \A k \in 1..Len(rects) :
            /\ rects[k].width > 0
            /\ rects[k].height > 0
            /\ RoiOk(image_size[1], image_size[2], rects[k])

\* C9: after a successful detection the regions and the origins have the same
\* length, origins[i] is the top-left of the rectangle text_regions[i] was cut
\* from, and tuple i of the detect / extract response is (text of region i,
\* box {origins[i], cols and rows of region i}), in detection order
C9_RegionsOriginsAligned ==
    pc \in {"ok", "responded"} =>
        /\ Len(text_regions) = Len(origins)
        /\ Len(text_regions) = Len(boxes)
        /\ \A i \in 1..Len(text_regions) :
            /\ origins[i] = <<rects[i].x, rects[i].y>>
            /\ text_regions[i] = RoiView(rects[i])
            /\ rects[i] \in {boxes[i].box, Enlarged(boxes[i].box, padding)}
        /\ response.kind = "detect" =>
            /\ Len(response.boxes) = Len(text_regions)
            /\ \A i \in 1..Len(text_regions) :
                response.boxes[i] =
                    [x |-> origins[i][1], y |-> origins[i][2],
                     width |-> text_regions[i].cols, height |-> text_regions[i].rows]
        /\ response.kind = "extract" =>
            /\ Len(response.detections) = Len(text_regions)
            /\ \A i \in 1..Len(text_regions) :
                /\ response.detections[i].text = OcrText(text_regions[i])
                /\ response.detections[i].bounding_box =
                    [x |-> origins[i][1], y |-> origins[i][2],
                     width |-> text_regions[i].cols, height |-> text_regions[i].rows]

\* an extract response of two different regions, one padded and one not
C9_Witness ==
    /\ pc = "responded"
    /\ response.kind = "extract"
    /\ Len(response.detections) = 2
    /\ response.detections[1] # response.detections[2]
    /\ rects[1] # boxes[1].box
    /\ rects[2] = boxes[2].box

-----------------------------------------------------------------------------
(* Mats and image buffers: src/src/utils/image_conversion.rs, opencv *)

Rows(m) == Len(m)

Cols(m) == IF m = << >> THEN 0 ELSE Len(m[1])

\* image_buffer.get_pixel(x, y), for (x, y) inside the image
GetPixel(img, x, y) == img[y + 1][x + 1]

\* whether get_pixel_checked(x, y) is Some
InImage(img, x, y) == 0 <= x /\ x < Cols(img) /\ 0 <= y /\ y < Rows(img)

\* get_blank_buffer: a white image of the dimensions of the given Mat
White == <<255, 255, 255>>

GetBlankBuffer(cols, rows) ==
    IF cols = 0 \/ rows = 0 THEN << >>
    ELSE [r \in 1..rows |-> [c \in 1..cols |-> White]]

\* u32 subtraction that wraps.  TLC's integers are 32 bit signed, so
\* the wrapped value 2^32 - d is written 2^31 - d: it is only compared with 0
\* and with image coordinates, all far below 2^30
U32Sub(a, b) == IF a >= b THEN a - b ELSE (2147483647 - (b - a)) + 1

\* `as i32` of a u32: a wrapped value 2^32 - d becomes -d
AsI32(v) == IF v >= 1073741824 THEN (v - 2147483647) - 1 ELSE v

-----------------------------------------------------------------------------
(* expand_text_region: src/src/replacer.rs 366-470 *)

\* replacer.rs 372-387: the four corners, and the pixel of the top-left one
\* (get_pixel panics outside the image)
ExpandBegin(img, s) ==
    IF ~InImage(img, s.x, s.y) THEN [st |-> "panic"]
    ELSE [st  |-> "ok",
          ori |-> GetPixel(img, s.x, s.y),
          tl  |-> [x |-> s.x, y |-> s.y, len |-> 0],
          tr  |-> [x |-> s.x + s.width, y |-> s.y, len |-> 0],
          bl  |-> [x |-> s.x, y |-> s.y + s.height, len |-> 0],
          br  |-> [x |-> s.x + s.width, y |-> s.y + s.height, len |-> 0]]

\* replacer.rs 388-400: tl_x - 1 and tl_y - 1 are u32: at 0 they panic in a
\* build with overflow checks and wrap to 2^32 - 1 in one without
RECURSIVE WalkTopLeft(_, _, _, _)
WalkTopLeft(img, c, ori, checks) ==
    IF c.x = 0 /\ checks THEN [c EXCEPT !.st = "panic"]
    ELSE IF ~(U32Sub(c.x, 1) > 0) THEN c
    ELSE IF c.y = 0 /\ checks THEN [c EXCEPT !.st = "panic"]
    ELSE IF ~(U32Sub(c.y, 1) > 0) THEN c
    ELSE IF /\ InImage(img, U32Sub(c.x, 1), U32Sub(c.y, 1))
            /\ GetPixel(img, U32Sub(c.x, 1), U32Sub(c.y, 1)) = ori
         THEN WalkTopLeft(img, [c EXCEPT !.x = c.x - 1, !.y = c.y - 1, !.len = c.len + 1],
                          ori, checks)
         ELSE c

\* a variant bounded by the image instead of the width of the box
RECURSIVE WalkTopRightToEdge(_, _, _, _)
WalkTopRightToEdge(img, c, ori, old_width) ==
    IF InImage(img, c.x + 1, c.y - 1) /\ GetPixel(img, c.x + 1, c.y - 1) = ori
    THEN WalkTopRightToEdge(img, [c EXCEPT !.x = c.x + 1, !.y = c.y - 1, !.len = c.len + 1],
                            ori, old_width)
    ELSE c

\* replacer.rs 403-415
RECURSIVE WalkTopRight(_, _, _, _)
WalkTopRight(img, c, ori, old_width) ==
    IF c.x < old_width /\ c.y > 0
    THEN IF InImage(img, c.x + 1, c.y - 1) /\ GetPixel(img, c.x + 1, c.y - 1) = ori
         THEN WalkTopRight(img, [c EXCEPT !.x = c.x + 1, !.y = c.y - 1, !.len = c.len + 1],
                           ori, old_width)
         ELSE c
    ELSE c

\* replacer.rs 418-430
RECURSIVE WalkBottomLeft(_, _, _, _)
WalkBottomLeft(img, c, ori, old_height) ==
    IF c.x > 0 /\ c.y + 1 < old_height
    THEN IF InImage(img, c.x - 1, c.y + 1) /\ GetPixel(img, c.x - 1, c.y + 1) = ori
         THEN WalkBottomLeft(img, [c EXCEPT !.x = c.x - 1, !.y = c.y + 1, !.len = c.len + 1],
                             ori, old_height)
         ELSE c
    ELSE c

\* replacer.rs 433-445
RECURSIVE WalkBottomRight(_, _, _, _, _)
WalkBottomRight(img, c, ori, old_width, old_height) ==
    IF c.x + 1 < old_width /\ c.y + 1 < old_height
    THEN IF InImage(img, c.x + 1, c.y + 1) /\ GetPixel(img, c.x + 1, c.y + 1) = ori
         THEN WalkBottomRight(img, [c EXCEPT !.x = c.x + 1, !.y = c.y + 1, !.len = c.len + 1],
                              ori, old_width, old_height)
         ELSE c
    ELSE c

\* a variant that subtracts the corners of the anti-diagonal the wrong way round
DecideSwapped(k, checks) ==
    IF k.tl.len + k.br.len < k.bl.len + k.tr.len
    THEN [st |-> "ok", x |-> AsI32(k.tl.x), y |-> AsI32(k.tl.y),
          width  |-> AsI32(U32Sub(k.br.x, k.tl.x)),
          height |-> AsI32(U32Sub(k.br.y, k.tl.y)),
          diag |-> "TopLeftBottomRight"]
    ELSE LET new_width  == U32Sub(k.tr.x, k.bl.x)
             new_height == U32Sub(k.tr.y, k.bl.y)
         IN IF checks /\ k.tr.y < k.bl.y THEN [st |-> "panic"]
            ELSE [st |-> "ok",
                  x |-> AsI32(U32Sub(k.tr.x, new_width)), y |-> AsI32(k.tr.y),
                  width |-> AsI32(new_width), height |-> AsI32(new_height),
                  diag |-> "TopRightBottomLeft"]

\* replacer.rs 447-469: the pair of corners with the smaller combined length
Decide(k, checks) ==
    IF k.tl.len + k.br.len < k.bl.len + k.tr.len
    THEN IF checks /\ (k.br.x < k.tl.x \/ k.br.y < k.tl.y) THEN [st |-> "panic"]
         ELSE [st |-> "ok",
               x |-> AsI32(k.tl.x), y |-> AsI32(k.tl.y),
               width  |-> AsI32(U32Sub(k.br.x, k.tl.x)),
               height |-> AsI32(U32Sub(k.br.y, k.tl.y)),
               diag |-> "TopLeftBottomRight"]
    ELSE LET new_width  == U32Sub(k.tr.x, k.bl.x)
             new_height == U32Sub(k.bl.y, k.tr.y)
         IN IF checks /\ (k.tr.x < k.bl.x \/ k.bl.y < k.tr.y \/ k.tr.x < new_width)
            THEN [st |-> "panic"]
            ELSE [st |-> "ok",
                  x |-> AsI32(U32Sub(k.tr.x, new_width)), y |-> AsI32(k.tr.y),
                  width |-> AsI32(new_width), height |-> AsI32(new_height),
                  diag |-> "TopRightBottomLeft"]

\* the corners after the four walks
Walked(img, s, checks) ==
    LET k0 == ExpandBegin(img, s)
    IN IF k0.st = "panic" THEN k0
       ELSE LET tl == WalkTopLeft(img, [x |-> k0.tl.x, y |-> k0.tl.y, len |-> 0, st |-> "ok"],
                                      k0.ori, checks)
            IN IF tl.st = "panic" THEN [st |-> "panic"]
               ELSE [st  |-> "ok",
                     ori |-> k0.ori,
                     tl  |-> [x |-> tl.x, y |-> tl.y, len |-> tl.len],
                     tr  |-> WalkTopRight(img, k0.tr, k0.ori, s.width),
                     bl  |-> WalkBottomLeft(img, k0.bl, k0.ori, s.height),
                     br  |-> WalkBottomRight(img, k0.br, k0.ori, s.width, s.height)]

\* expand_text_region((x, y), old_width, old_height, original)
ExpandTextRegion(img, s, checks) ==
    LET k == Walked(img, s, checks)
    IN IF k.st = "panic" THEN [st |-> "panic"] ELSE Decide(k, checks)

-----------------------------------------------------------------------------
(* expand_text_region on every page and every seed box inside the page *)

PageKinds == {"distinct", "uniform", "bubble"}

\* a page whose pixels all differ, a page of one colour, and a white bubble
\* with a black border
PagePixel(kind, c, r) ==
    CASE kind = "distinct" -> <<c, r, 0>>
      [] kind = "uniform"  -> <<200, 200, 200>>
      [] OTHER -> IF c = 0 \/ r = 0 \/ c = PageCols - 1 \/ r = PageRows - 1
                  THEN <<0, 0, 0>> ELSE White

Page(kind) == [r \in 1..PageRows |-> [c \in 1..PageCols |-> PagePixel(kind, c - 1, r - 1)]]

PageImages == { Page(k) : k \in PageKinds }

\* the seed boxes inside the page: the (origin, cols, rows) of a region cut by
\* Mat::roi, which is either non-empty or the empty Mat
SeedBoxes ==
    { [x |-> x, y |-> y, width |-> w, height |-> h] :
        x \in 0..PageCols, y \in 0..PageRows, w \in 0..PageCols, h \in 0..PageRows }

Seeds ==
    { s \in SeedBoxes :
        /\ s.x + s.width <= PageCols
        /\ s.y + s.height <= PageRows
        /\ (s.width = 0) = (s.height = 0) }

InitExpand ==
    /\ pc = "expand"
    /\ padding = DEFAULT_PADDING
    /\ text_regions = << >>
    /\ origins = << >>
    /\ DetectIdle
    /\ original_image \in PageImages
    /\ overflow_checks \in BOOLEAN
    /\ seed \in Seeds
    /\ corners = << >>
    /\ expanded = [st |-> "none"]
    /\ blank_mats = << >>
    /\ patch_i = 0
    /\ temp_image = << >>
    /\ prev_image = << >>
    /\ second = [st |-> "none"]
    /\ LayoutIdle
    /\ ServerIdle
    /\ ToolIdle

ExpandRest == <<padding, text_regions, origins, detect_vars, original_image,
                overflow_checks, seed, clean_vars,
              layout_vars, server_vars, tool_vars>>

\* replacer.rs 372-445: the corners are set up and the four walks run
WalkCorners ==
    /\ pc = "expand"
    /\ LET k == Walked(original_image, seed, overflow_checks)
       IN /\ k.st = "ok"
          /\ corners' = k
    /\ pc' = "decide"
    /\ UNCHANGED expanded
    /\ UNCHANGED ExpandRest

\* get_pixel outside the image, or tl_x - 1 / tl_y - 1 overflowing, panics
WalkPanics ==
    /\ pc = "expand"
    /\ Walked(original_image, seed, overflow_checks).st = "panic"
    /\ pc' = "panic"
    /\ expanded' = [st |-> "panic"]
    /\ UNCHANGED corners
    /\ UNCHANGED ExpandRest

\* replacer.rs 447-469
DecideStep ==
    /\ pc = "decide"
    /\ expanded' = Decide(corners, overflow_checks)
    /\ pc' = "returned"
    /\ UNCHANGED corners
    /\ UNCHANGED ExpandRest

NextExpand == WalkCorners \/ WalkPanics \/ DecideStep

SpecExpand == InitExpand /\ [][NextExpand]_vars

\* C4: the rectangle expand_text_region returns for a seed box inside the
\* image lies within the image and its area is at least the seed's
C4_ExpandedInsideAndNoSmaller ==
    (pc = "returned" /\ expanded.st = "ok") =>
        /\ 0 <= expanded.x /\ 0 <= expanded.y
        /\ 0 <= expanded.width /\ 0 <= expanded.height
        /\ expanded.x + expanded.width <= Cols(original_image)
        /\ expanded.y + expanded.height <= Rows(original_image)
        /\ expanded.width * expanded.height >= seed.width * seed.height

\* a returned rectangle after a top-left walk of at least one step
C4_Witness ==
    /\ pc = "returned"
    /\ expanded.st = "ok"
    /\ corners.tl.len >= 1
    /\ seed.width >= 1

-----------------------------------------------------------------------------
(* The compositor: replace_region, get_blank_mats, clean_page *)

\* the Mat that Mat::roi(m, r) views (r passing RoiOk)
RoiMat(m, r) ==
    IF r.width <= 0 \/ r.height <= 0 THEN << >>
    ELSE [i \in 1..r.height |-> [j \in 1..r.width |-> m[r.y + i][r.x + j]]]

Rect(x, y, w, h) == [x |-> x, y |-> y, width |-> w, height |-> h]

\* core::vconcat of three Mats: they must have the columns of the first
VConcat3(a, b, c) ==
    IF Cols(b) = Cols(a) /\ Cols(c) = Cols(a)
    THEN [st |-> "ok", mat |-> a \o b \o c]
    ELSE [st |-> "err"]

\* core::hconcat of three Mats: they must have the rows of the first
HConcat3(a, b, c) ==
    IF Rows(b) = Rows(a) /\ Rows(c) = Rows(a)
    THEN [st |-> "ok", mat |-> [i \in 1..Rows(a) |-> a[i] \o b[i] \o c[i]]]
    ELSE [st |-> "err"]

\* a variant that stacks the bottom panel above the patch and the top panel below
ReplaceRegionSwapped(background, region, x, y) ==
    LET full_width  == Cols(background)
        full_height == Rows(background)
        width       == Cols(region)
        height      == Rows(region)
        left_r   == Rect(0, 0, x, full_height)
        top_r    == Rect(x, 0, width, y)
        bottom_r == Rect(x, y + height, width, full_height - (y + height))
        right_r  == Rect(x + width, 0, full_width - (x + width), full_height)
    IN IF \E r \in {left_r, top_r, bottom_r, right_r} : ~RoiOk(full_width, full_height, r)
       THEN [st |-> "err"]
       ELSE LET vertical_panel ==
                    VConcat3(RoiMat(background, bottom_r), region, RoiMat(background, top_r))
            IN IF vertical_panel.st = "err" THEN [st |-> "err"]
               ELSE HConcat3(RoiMat(background, left_r), vertical_panel.mat,
                             RoiMat(background, right_r))

\* replace_region(background, region, (x, y), diag_orientation)
ReplaceRegion(background, region, x, y) ==
    LET full_width  == Cols(background)
        full_height == Rows(background)
        width       == Cols(region)
        height      == Rows(region)
        left_r   == Rect(0, 0, x, full_height)
        top_r    == Rect(x, 0, width, y)
        bottom_r == Rect(x, y + height, width, full_height - (y + height))
        right_r  == Rect(x + width, 0, full_width - (x + width), full_height)
    IN IF \E r \in {left_r, top_r, bottom_r, right_r} : ~RoiOk(full_width, full_height, r)
       THEN [st |-> "err"]
       ELSE LET vertical_panel ==
                    VConcat3(RoiMat(background, top_r), region, RoiMat(background, bottom_r))
            IN IF vertical_panel.st = "err" THEN [st |-> "err"]
               ELSE HConcat3(RoiMat(background, left_r), vertical_panel.mat,
                             RoiMat(background, right_r))

\* get_blank_mats: one white Mat of the region's size per (origin, region)
\* pair, placed at the origin expand_text_region returns
RECURSIVE GetBlankMats(_, _, _, _, _)
GetBlankMats(img, orig, regions, checks, i) ==
    IF i > ZipLen2(orig, regions) THEN [st |-> "ok", mats |-> << >>]
    ELSE LET e == ExpandTextRegion(img,
                      Rect(orig[i][1], orig[i][2], regions[i].cols, regions[i].rows),
                      checks)
             rest == GetBlankMats(img, orig, regions, checks, i + 1)
         IN IF e.st = "panic" THEN [st |-> "panic"]
            ELSE IF rest.st # "ok" THEN rest
            ELSE [st |-> "ok",
                  mats |-> << [mat |-> GetBlankBuffer(regions[i].cols, regions[i].rows),
                               origin |-> <<e.x, e.y>>,
                               diag |-> e.diag] >> \o rest.mats]

\* a variant that splices every patch into the page it was first given
RECURSIVE ReplaceAllFromOriginal(_, _, _)
ReplaceAllFromOriginal(img, mats, i) ==
    IF i > Len(mats) THEN [st |-> "ok", mat |-> img]
    ELSE LET r == ReplaceRegion(img, mats[i].mat, mats[i].origin[1], mats[i].origin[2])
         IN IF r.st = "err" THEN r
            ELSE IF i = Len(mats) THEN r
            ELSE ReplaceAllFromOriginal(img, mats, i + 1)

\* the replace loop of clean_page and replace_text_regions: the patches are
\* spliced in list order, each into the result of the one before
RECURSIVE ReplaceAll(_, _, _)
ReplaceAll(img, mats, i) ==
    IF i > Len(mats) THEN [st |-> "ok", mat |-> img]
    ELSE LET r == ReplaceRegion(img, mats[i].mat, mats[i].origin[1], mats[i].origin[2])
         IN IF r.st = "err" THEN r ELSE ReplaceAll(r.mat, mats, i + 1)

\* Replacer::clean_page
CleanPage(img, orig, regions, checks) ==
    LET b == GetBlankMats(img, orig, regions, checks, 1)
    IN IF b.st # "ok" THEN [st |-> b.st] ELSE ReplaceAll(img, b.mats, 1)

-----------------------------------------------------------------------------
(* replace_region called patch by patch, as the loops of clean_page and     *)
(* replace_text_regions call it, with patches of any content               *)

\* a patch of cols x rows pixels, none of them a pixel of a page
PatchMat(cols, rows) == [r \in 1..rows |-> [c \in 1..cols |-> <<100 + c, 100 + r, 7>>]]

PatchMats == { PatchMat(1, 1), PatchMat(2, 2), PatchMat(3, 1) }

PatchOrigins == { <<1, 1>>, <<2, 1>>, <<0, 1>>, <<1, 0>>, <<3, 3>>, <<-1, 1>>, <<2, 2>> }

Patches ==
    { [mat |-> m, origin |-> o, diag |-> "TopRightBottomLeft"] :
        m \in PatchMats, o \in PatchOrigins }

InitSplice ==
    /\ pc = "replace"
    /\ padding = DEFAULT_PADDING
    /\ text_regions = << >>
    /\ origins = << >>
    /\ DetectIdle
    /\ original_image \in PageImages
    /\ overflow_checks = FALSE
    /\ seed = [x |-> 0, y |-> 0, width |-> 0, height |-> 0]
    /\ corners = << >>
    /\ expanded = [st |-> "none"]
    /\ blank_mats \in (SeqsUpTo(Patches, MaxRegions) \ { << >> })
    /\ patch_i = 1
    /\ temp_image = original_image
    /\ prev_image = << >>
    /\ second = [st |-> "none"]
    /\ LayoutIdle
    /\ ServerIdle
    /\ ToolIdle

SpliceRest == <<padding, text_regions, origins, detect_vars, original_image,
                overflow_checks, expand_vars, blank_mats, second,
              layout_vars, server_vars, tool_vars>>

\* replacer.rs 67 / 83: one replace_region call that succeeds
ReplaceStep ==
    /\ pc = "replace"
    /\ patch_i <= Len(blank_mats)
    /\ LET r == ReplaceRegion(temp_image, blank_mats[patch_i].mat,
                              blank_mats[patch_i].origin[1], blank_mats[patch_i].origin[2])
       IN /\ r.st = "ok"
          /\ temp_image' = r.mat
    /\ prev_image' = temp_image
    /\ patch_i' = patch_i + 1
    /\ UNCHANGED pc
    /\ UNCHANGED SpliceRest

\* replacer.rs 67 / 83: replace_region returns an error, and so does the loop
ReplaceFail ==
    /\ pc = "replace"
    /\ patch_i <= Len(blank_mats)
    /\ ReplaceRegion(temp_image, blank_mats[patch_i].mat,
                     blank_mats[patch_i].origin[1], blank_mats[patch_i].origin[2]).st = "err"
    /\ pc' = "err"
    /\ UNCHANGED <<patch_i, temp_image, prev_image>>
    /\ UNCHANGED SpliceRest

\* replacer.rs 70 / 86: Ok(temp_image)
ReplaceDone ==
    /\ pc = "replace"
    /\ patch_i > Len(blank_mats)
    /\ pc' = "done"
    /\ UNCHANGED <<patch_i, temp_image, prev_image>>
    /\ UNCHANGED SpliceRest

NextSplice == ReplaceStep \/ ReplaceFail \/ ReplaceDone

SpecSplice == InitSplice /\ [][NextSplice]_vars

\* the patch of the replace_region call that succeeded last
LastPatch == blank_mats[patch_i - 1]

\* C6: a replace_region call that succeeds returns an image of the
\* background's size whose pixels are the region's inside the rectangle
\* [x, x + region width) x [y, y + region height) and the background's outside
C6_ReplaceRegionFrame ==
    (pc \in {"replace", "done"} /\ patch_i > 1) =>
        LET x == LastPatch.origin[1]
            y == LastPatch.origin[2]
            region == LastPatch.mat
        IN /\ Cols(temp_image) = Cols(prev_image)
           /\ Rows(temp_image) = Rows(prev_image)
           /\ \A r \in 0..(Rows(prev_image) - 1) : Len(temp_image[r + 1]) = Cols(prev_image)
           /\ \A c \in 0..(Cols(prev_image) - 1), r \in 0..(Rows(prev_image) - 1) :
                GetPixel(temp_image, c, r) =
                    IF /\ x <= c /\ c < x + Cols(region)
                       /\ y <= r /\ r < y + Rows(region)
                    THEN GetPixel(region, c - x, r - y)
                    ELSE GetPixel(prev_image, c, r)

\* a successful call with a patch of two rows in the middle of a page whose
\* pixels all differ
C6_Witness ==
    /\ pc = "replace"
    /\ patch_i = 2
    /\ original_image = Page("distinct")
    /\ Rows(LastPatch.mat) = 2
    /\ temp_image # prev_image

-----------------------------------------------------------------------------
(* clean_page on the regions and origins of a detection *)

\* regions as run_inference returns them: views inside the page
CleanSeeds ==
    { Rect(1, 1, 2, 2), Rect(2, 2, 2, 2), Rect(1, 3, 3, 1), Rect(0, 1, 2, 2),
      Rect(3, 3, 2, 2), Rect(2, 2, 0, 0) }

InitClean ==
    /\ pc = "clean"
    /\ padding = DEFAULT_PADDING
    /\ \E rs \in SeqsUpTo(CleanSeeds, MaxRegions) :
        /\ text_regions = [i \in 1..Len(rs) |-> RoiView(rs[i])]
        /\ origins = [i \in 1..Len(rs) |-> <<rs[i].x, rs[i].y>>]
    /\ DetectIdle
    /\ original_image \in PageImages
    /\ overflow_checks \in BOOLEAN
    /\ seed = [x |-> 0, y |-> 0, width |-> 0, height |-> 0]
    /\ corners = << >>
    /\ expanded = [st |-> "none"]
    /\ blank_mats = << >>
    /\ patch_i = 0
    /\ temp_image = << >>
    /\ prev_image = << >>
    /\ second = [st |-> "none"]
    /\ LayoutIdle
    /\ ServerIdle
    /\ ToolIdle

CleanRest == <<padding, text_regions, origins, detect_vars, original_image,
               overflow_checks, expand_vars, patch_i, prev_image,
              layout_vars, server_vars, tool_vars>>

\* Replacer::clean_page returns Ok(temp_image)
CleanOk ==
    /\ pc = "clean"
    /\ LET r == CleanPage(original_image, origins, text_regions, overflow_checks)
       IN /\ r.st = "ok"
          /\ temp_image' = r.mat
    /\ blank_mats' = GetBlankMats(original_image, origins, text_regions, overflow_checks, 1).mats
    /\ pc' = "cleaned"
    /\ UNCHANGED second
    /\ UNCHANGED CleanRest

\* Replacer::clean_page returns the error of a replace_region call
CleanErr ==
    /\ pc = "clean"
    /\ CleanPage(original_image, origins, text_regions, overflow_checks).st = "err"
    /\ pc' = "err"
    /\ UNCHANGED <<blank_mats, temp_image, second>>
    /\ UNCHANGED CleanRest

\* expand_text_regions panics inside get_blank_mats
CleanPanics ==
    /\ pc = "clean"
    /\ CleanPage(original_image, origins, text_regions, overflow_checks).st = "panic"
    /\ pc' = "panic"
    /\ UNCHANGED <<blank_mats, temp_image, second>>
    /\ UNCHANGED CleanRest

\* clean_page again, on the cleaned page, with the same regions and origins
CleanAgain ==
    /\ pc = "cleaned"
    /\ second' = CleanPage(temp_image, origins, text_regions, overflow_checks)
    /\ pc' = "twice"
    /\ UNCHANGED <<blank_mats, temp_image>>
    /\ UNCHANGED CleanRest

NextClean == CleanOk \/ CleanErr \/ CleanPanics \/ CleanAgain

SpecClean == InitClean /\ [][NextClean]_vars

\* whether pixel (c, r) lies in patch p
InPatch(p, c, r) ==
    /\ p.origin[1] <= c /\ c < p.origin[1] + Cols(p.mat)
    /\ p.origin[2] <= r /\ r < p.origin[2] + Rows(p.mat)

\* C7: after clean_page the rectangle of every patch (its origin, its width
\* and height) is white, and every pixel outside all patches is the input's
C7_CleanWhiteInsideSameOutside ==
    pc \in {"cleaned", "twice"} =>
        /\ Len(blank_mats) = Len(text_regions)
        /\ Cols(temp_image) = Cols(original_image)
        /\ Rows(temp_image) = Rows(original_image)
        /\ \A i \in 1..Len(blank_mats) :
            /\ Cols(blank_mats[i].mat) = text_regions[i].cols
            /\ Rows(blank_mats[i].mat) = text_regions[i].rows
        /\ \A c \in 0..(Cols(original_image) - 1), r \in 0..(Rows(original_image) - 1) :
            GetPixel(temp_image, c, r) =
                IF \E i \in 1..Len(blank_mats) : InPatch(blank_mats[i], c, r)
                THEN White
                ELSE GetPixel(original_image, c, r)

\* a cleaned page with two patches that do not cover one another
C7_Witness ==
    /\ pc = "cleaned"
    /\ Len(blank_mats) = 2
    /\ original_image = Page("distinct")
    /\ \E c \in 0..(PageCols - 1), r \in 0..(PageRows - 1) :
        InPatch(blank_mats[1], c, r) /\ ~InPatch(blank_mats[2], c, r)
    /\ \E c \in 0..(PageCols - 1), r \in 0..(PageRows - 1) :
        InPatch(blank_mats[2], c, r) /\ ~InPatch(blank_mats[1], c, r)

\* C8: cleaning the cleaned page again with the same regions gives the
\* cleaned page
C8_CleanIdempotent ==
    pc = "twice" => second = [st |-> "ok", mat |-> temp_image]

\* a page that was changed by the first clean and then cleaned again
C8_Witness ==
    /\ pc = "twice"
    /\ temp_image # original_image
    /\ Len(blank_mats) = 2

\* ---------------------------------------------------------------------------
\* Replacer::write_text: the two-pass wrapping of one translated text
\* (replacer.rs 141-325).  A string is a sequence of one-character strings.
\* ---------------------------------------------------------------------------

MaxTextLen == 6

Chars == {"a", "W", " "}

\* horizontal advance of a glyph in tenths of the horizontal scale; the font
\* (assets/wildwordsroman.ttf) is proportional, "W" is wider than "a"
GlyphUnits(c) ==
    CASE c = "a" -> 5
      [] c = "W" -> 9
      [] c = " " -> 3
      [] c = "-" -> 3

RECURSIVE SumUnits(_)
SumUnits(s) == IF s = << >> THEN 0 ELSE GlyphUnits(Head(s)) + SumUnits(Tail(s))

\* drawing::text_size(scale, &font, s).0 with scale.x = height / dx
TextSize(s, scale) == (SumUnits(s) * scale.height) \div (scale.dx * 10)

\* str::split(' '): the pieces between the spaces, empty pieces included
RECURSIVE SplitFrom(_, _, _, _)
SplitFrom(s, i, cur, acc) ==
    IF i > Len(s) THEN Append(acc, cur)
    ELSE IF s[i] = " " THEN SplitFrom(s, i + 1, << >>, Append(acc, cur))
    ELSE SplitFrom(s, i + 1, Append(cur, s[i]), acc)

Split(s) == SplitFrom(s, 1, << >>, << >>)

\* [String]::join(" ")
RECURSIVE Join(_)
Join(words) ==
    IF words = << >> THEN << >>
    ELSE IF Len(words) = 1 THEN words[1]
    ELSE words[1] \o <<" ">> \o Join(Tail(words))

\* a variant in which a width rule that matches stands against the word rules
ScaleForWidthFirst(width, height, num_words) ==
    LET d == IF width < 55 THEN [dx |-> 8, dy |-> 12]
             ELSE IF width < 100 THEN [dx |-> 10, dy |-> 14]
             ELSE IF num_words >= 16 THEN [dx |-> 14, dy |-> 16]
             ELSE IF num_words >= 14 THEN [dx |-> 12, dy |-> 14]
             ELSE IF num_words >= 12 THEN [dx |-> 10, dy |-> 12]
             ELSE IF num_words >= 10 THEN [dx |-> 8, dy |-> 10]
             ELSE IF num_words <= 2 THEN [dx |-> 7, dy |-> 9]
             ELSE [dx |-> 9, dy |-> 12]
    IN [height |-> height, dx |-> d.dx, dy |-> d.dy]

\* replacer.rs 166-205: the scale chosen from the canvas width and the
\* number of words
ScaleFor(width, height, num_words) ==
    LET base == IF width < 55 THEN [dx |-> 8, dy |-> 12]
                ELSE IF width < 100 THEN [dx |-> 10, dy |-> 14]
                ELSE [dx |-> 9, dy |-> 12]
        byWords == IF num_words >= 16 THEN [dx |-> 14, dy |-> 16]
                   ELSE IF num_words >= 14 THEN [dx |-> 12, dy |-> 14]
                   ELSE IF num_words >= 12 THEN [dx |-> 10, dy |-> 12]
                   ELSE IF num_words >= 10 THEN [dx |-> 8, dy |-> 10]
                   ELSE IF num_words <= 2 THEN [dx |-> 7, dy |-> 9]
                   ELSE base
    IN [height |-> height, dx |-> byWords.dx, dy |-> byWords.dy]

\* replacer.rs 144: stop_x = width - (width / 16)
StopX(width) == width - (width \div 16)

\* replacer.rs 216, 248, 269, 299: stop_x as i32 - self.padding as i32
LineLimit(width, pad) == StopX(width) - pad

\* replacer.rs 213-228: the body of the first loop for one word
Pass1Word(st, word, scale, limit) ==
    LET text_width == TextSize(word, scale)
        width_of_space == TextSize(<<" ">>, scale)
    IN IF st.curr_line_size + text_width + width_of_space > limit
       THEN [temp_lines |-> Append(st.temp_lines, st.curr_line),
             curr_line |-> word,
             curr_line_size |-> text_width]
       ELSE IF st.temp_lines = << >> /\ st.curr_line = << >>
       THEN [st EXCEPT !.curr_line = word]
       ELSE [st EXCEPT !.curr_line = st.curr_line \o <<" ">> \o word,
                       !.curr_line_size = st.curr_line_size + width_of_space + text_width]

RECURSIVE Pass1Loop(_, _, _, _)
Pass1Loop(st, words, scale, limit) ==
    IF words = << >> THEN st
    ELSE Pass1Loop(Pass1Word(st, Head(words), scale, limit), Tail(words), scale, limit)

\* replacer.rs 207-236: the lines of the first pass
Pass1(s, width, height, pad) ==
    LET words == Split(s)
        scale == ScaleFor(width, height, Len(words))
        st == Pass1Loop([temp_lines |-> << >>, curr_line |-> << >>, curr_line_size |-> 0],
                        words, scale, LineLimit(width, pad))
    IN Append(st.temp_lines, st.curr_line)

\* replacer.rs 262-291: the trailing characters of a single word move to a
\* new line until the rest and a hyphen fit; pop() on the empty vector panics
RECURSIVE StripChars(_, _, _, _)
StripChars(chars, new_line, scale, limit) ==
    IF TextSize(chars, scale) + TextSize(<<"-">>, scale) > limit
    THEN IF chars = << >>
         THEN [st |-> "panic", out |-> << >>]
         ELSE StripChars(SubSeq(chars, 1, Len(chars) - 1),
                         <<chars[Len(chars)]>> \o new_line, scale, limit)
    ELSE [st |-> "ok",
          out |-> IF new_line # << >>
                  THEN <<chars \o <<"-">>, new_line>>
                  ELSE <<chars \o <<"-">>>>]

\* replacer.rs 293-317: the trailing words of a line move to a new line
\* until the rest fits; pop() on the empty vector panics
RECURSIVE MoveWords(_, _, _, _)
MoveWords(words, new_line, scale, limit) ==
    IF TextSize(Join(words), scale) > limit
    THEN IF words = << >>
         THEN [st |-> "panic", out |-> << >>]
         ELSE MoveWords(SubSeq(words, 1, Len(words) - 1),
                        <<words[Len(words)]>> \o new_line, scale, limit)
    ELSE [st |-> "ok",
          out |-> IF new_line # << >>
                  THEN <<Join(words), Join(new_line)>>
                  ELSE <<Join(words)>>]

\* replacer.rs 245-324: the body of the second loop for one line
Pass2Line(line, scale, limit) ==
    IF TextSize(line, scale) > limit
    THEN IF Len(Split(line)) = 1
         THEN StripChars(line, << >>, scale, limit)
         ELSE MoveWords(Split(line), << >>, scale, limit)
    ELSE [st |-> "ok", out |-> IF line # << >> THEN <<line>> ELSE << >>]

RECURSIVE Pass2Loop(_, _, _, _)
Pass2Loop(acc, tl, scale, limit) ==
    IF tl = << >> THEN [st |-> "ok", out |-> acc]
    ELSE LET r == Pass2Line(Head(tl), scale, limit)
         IN IF r.st = "panic" THEN r
            ELSE Pass2Loop(acc \o r.out, Tail(tl), scale, limit)

\* replacer.rs 238-325: the lines of the second pass
Pass2(tl, s, width, height, pad) ==
    Pass2Loop(<< >>, tl, ScaleFor(width, height, Len(Split(s))), LineLimit(width, pad))

RECURSIVE StringsUpTo(_)
StringsUpTo(n) ==
    IF n = 0 THEN {<< >>}
    ELSE LET prev == StringsUpTo(n - 1)
         IN prev \cup {Append(s, c) : s \in {t \in prev : Len(t) = n - 1}, c \in Chars}

\* "a a ... a" of n words
RECURSIVE Wordy(_)
Wordy(n) == IF n <= 1 THEN <<"a">> ELSE <<"a", " ">> \o Wordy(n - 1)

\* texts of 8 to 17 words, the counts the scale rules tell apart
WordyTexts == { Wordy(n) : n \in 8..17 }

Texts == StringsUpTo(MaxTextLen) \cup WordyTexts

CanvasWidths == {16, 30, 60, 120, 200}

CanvasHeights == {40, 100}

\* a text region has been expanded and its blank canvas made
InitLayout ==
    /\ pc = "layout"
    /\ padding \in Paddings
    /\ text \in Texts
    /\ canvas \in [width : CanvasWidths, height : CanvasHeights]
    /\ temp_lines = << >>
    /\ lines = << >>
    /\ font_scale = [height |-> 0, dx |-> 0, dy |-> 0]
    /\ text_regions = << >>
    /\ origins = << >>
    /\ DetectIdle
    /\ ReplacerIdle
    /\ ServerIdle
    /\ ToolIdle

LayoutRest == <<padding, text_regions, origins, detect_vars, replacer_vars,
                server_vars, tool_vars, text, canvas>>

\* replacer.rs 207-236
Pass1Step ==
    /\ pc = "layout"
    /\ font_scale' = ScaleFor(canvas.width, canvas.height, Len(Split(text)))
    /\ temp_lines' = Pass1(text, canvas.width, canvas.height, padding)
    /\ pc' = "wrapped"
    /\ UNCHANGED lines
    /\ UNCHANGED LayoutRest

\* replacer.rs 238-325, no pop() on an empty vector
Pass2Ok ==
    /\ pc = "wrapped"
    /\ LET r == Pass2(temp_lines, text, canvas.width, canvas.height, padding)
       IN /\ r.st = "ok"
          /\ lines' = r.out
    /\ pc' = "laid"
    /\ UNCHANGED <<temp_lines, font_scale>>
    /\ UNCHANGED LayoutRest

\* replacer.rs 276, 305: expect() on the popped None
Pass2Panics ==
    /\ pc = "wrapped"
    /\ Pass2(temp_lines, text, canvas.width, canvas.height, padding).st = "panic"
    /\ pc' = "panic"
    /\ UNCHANGED <<temp_lines, lines, font_scale>>
    /\ UNCHANGED LayoutRest

NextLayout == Pass1Step \/ Pass2Ok \/ Pass2Panics

SpecLayout == InitLayout /\ [][NextLayout]_vars

\* the scale write_text uses for the text being laid out
LaidScale == ScaleFor(canvas.width, canvas.height, Len(Split(text)))

\* a single word on which hyphenation is exhausted: no space in the line and
\* at most one character besides the hyphen
HyphenationExhausted(line) ==
    /\ \A i \in 1..Len(line) : line[i] # " "
    /\ Len(line) <= 2

\* C5: every line write_text produces is at most rect_width - 2*padding wide,
\* except a single unbreakable word on which hyphenation is exhausted; the
\* continuation lines of the second pass are lines like any other
C5_LinesFit ==
    pc = "laid" =>
        \A i \in 1..Len(lines) :
            \/ TextSize(lines[i], LaidScale) <= canvas.width - 2 * padding
            \/ HyphenationExhausted(lines[i])

\* ---------------------------------------------------------------------------
\* The request handlers (web/http_routes.rs, web/hybrid_service.rs): each
\* handler makes a oneshot channel, spawns its closure on the rayon pool and
\* awaits the receiver.
\* ---------------------------------------------------------------------------

MaxRequests == 2

U16Max == 65535

\* an uploaded image: its pixels and the boxes run_inference finds on it
ServerImages ==
    { [page |-> Page("distinct"), found |-> <<Rect(1, 1, 2, 2)>>],
      [page |-> Page("bubble"), found |-> <<Rect(1, 1, 2, 2), Rect(2, 2, 2, 2)>>],
      [page |-> Page("uniform"), found |-> <<Rect(3, 3, 2, 2)>>],
      [page |-> Page("distinct"), found |-> <<Rect(0, 1, 2, 2)>>] }

\* Option<u16> of the HTTP requests, optional integer of the gRPC requests
HttpPaddings == {<< >>}

GrpcPaddings == {<< >>, <<70000>>}

RequestInputs ==
    { [kind |-> k, image |-> im, padding |-> p] :
        k \in {"http_clean", "http_extract"}, im \in ServerImages, p \in HttpPaddings }
    \cup { [kind |-> "grpc_clean", image |-> im, padding |-> p] :
             im \in ServerImages, p \in GrpcPaddings }

\* what a closure sends: Ok(response) or Err(error)
OkImage(mat) == [ok |-> TRUE, image |-> mat, detections |-> << >>, error |-> ""]

OkDetections(d) == [ok |-> TRUE, image |-> << >>, detections |-> d, error |-> ""]

ErrMessage(e) == [ok |-> FALSE, image |-> << >>, detections |-> << >>, error |-> e]

NoMessage == ErrMessage("none")

\* detector.run_inference(&image): the regions and their origins
Inference(image) ==
    [regions |-> [i \in 1..Len(image.found) |-> RoiView(image.found[i])],
     origins |-> [i \in 1..Len(image.found) |-> <<image.found[i].x, image.found[i].y>>]]

\* handlers.rs 27-47
CleanImage(image, checks) ==
    LET d == Inference(image)
    IN CleanPage(image.page, d.origins, d.regions, checks)

\* handlers.rs 49-65
ExtractText(image) ==
    LET d == Inference(image)
    IN [extracted_text |-> OcrExtract(d.regions), text_regions |-> d.regions,
        origins |-> d.origins]

\* the match on clean_image's result in http_clean 77-87 and clean 79-89
SendCleaned(image, checks) ==
    LET r == CleanImage(image, checks)
    IN IF r.st = "panic" THEN [st |-> "panic", msg |-> NoMessage]
       ELSE IF r.st = "ok" THEN [st |-> "sent", msg |-> OkImage(r.mat)]
       ELSE [st |-> "sent", msg |-> ErrMessage("clean_image")]

\* the closure of a handler, run to its end: the one message it sends, or the
\* panic inside it
ClosureOutcome(input, checks) ==
    CASE input.kind = "http_clean" -> SendCleaned(input.image, checks)
      [] input.kind = "http_extract" ->
            LET e == ExtractText(input.image)
            IN [st |-> "sent",
                msg |-> OkDetections(ExtractDetections(e.extracted_text, e.text_regions,
                                                       e.origins))]
      [] OTHER ->
            IF input.padding # << >> /\ input.padding[1] > U16Max
            THEN [st |-> "sent", msg |-> ErrMessage("u16::try_from")]
            ELSE SendCleaned(input.image, checks)

\* the outcome of the closure of every request, in either build
ClosureOutcomes ==
    [input \in RequestInputs |->
        [checks \in BOOLEAN |-> ClosureOutcome(input, checks)]]

\* recv.await and the match on it: what the client of the request gets
HandlerResponse(kind, msg) ==
    [via |-> IF kind = "grpc_clean" THEN "grpc" ELSE "http",
     status |-> IF msg.ok THEN "ok" ELSE "error",
     body |-> msg]

NoResponse == [via |-> "none", status |-> "none", body |-> NoMessage]

\* a variant whose closures all capture the sender of the first channel
SpawnedJobShared(r, c, input) == [id |-> r, send |-> 1, request |-> input]

\* rayon::spawn(move || ...): the closure owns the sender of the handler's
\* own channel and the request
SpawnedJob(r, c, input) == [id |-> r, send |-> c, request |-> input]

\* the server is up and no request has arrived
InitServer ==
    /\ pc = "serving"
    /\ padding = DEFAULT_PADDING
    /\ text_regions = << >>
    /\ origins = << >>
    /\ DetectIdle
    /\ original_image = << >>
    /\ overflow_checks \in BOOLEAN
    /\ seed = [x |-> 0, y |-> 0, width |-> 0, height |-> 0]
    /\ corners = << >>
    /\ expanded = [st |-> "none"]
    /\ blank_mats = << >>
    /\ patch_i = 0
    /\ temp_image = << >>
    /\ prev_image = << >>
    /\ second = [st |-> "none"]
    /\ LayoutIdle
    /\ ServerIdle
    /\ ToolIdle

ServerRest == <<padding, text_regions, origins, detect_vars, replacer_vars, layout_vars,
               tool_vars>>

\* a handler is called with a request: it makes its channel, spawns its
\* closure and reaches recv.await (http_routes.rs 73-90, 112-163;
\* hybrid_service.rs 62-92)
Arrive(input) ==
    /\ pc = "serving"
    /\ Len(requests) < MaxRequests
    /\ LET r == Len(requests) + 1
           c == Len(chans) + 1
       IN /\ requests' = Append(requests, [input |-> input, st |-> "awaiting",
                                            chan |-> c, resp |-> NoResponse])
          /\ chans' = Append(chans, [owner |-> r, state |-> "open", msg |-> NoMessage,
                                      sends |-> 0, recvs |-> 0, receiver |-> 0])
          /\ pool' = pool \cup {SpawnedJob(r, c, input)}
    /\ UNCHANGED <<pc, sent_order>>
    /\ UNCHANGED ServerRest

\* a pool thread runs a closure to its end; send() consumes the sender and
\* succeeds only on a channel that is open, its Err is dropped by `let _ =`
WorkerRun(j) ==
    /\ pc = "serving"
    /\ j \in pool
    /\ \E o \in {ClosureOutcomes[j.request][overflow_checks]} :
          /\ o.st = "sent"
          /\ chans' = IF chans[j.send].state = "open"
                      THEN [chans EXCEPT ![j.send].state = "full",
                                         ![j.send].msg = o.msg,
                                         ![j.send].sends = @ + 1]
                      ELSE chans
    /\ pool' = pool \ {j}
    /\ sent_order' = Append(sent_order, j.id)
    /\ UNCHANGED <<pc, requests>>
    /\ UNCHANGED ServerRest

\* a closure panics: the pool has no panic handler and the process aborts
WorkerPanics(j) ==
    /\ pc = "serving"
    /\ j \in pool
    /\ ClosureOutcomes[j.request][overflow_checks].st = "panic"
    /\ pc' = "aborted"
    /\ UNCHANGED server_vars
    /\ UNCHANGED ServerRest

\* recv.await completes with the message of the handler's channel and the
\* handler returns its response
Receive(r) ==
    /\ pc = "serving"
    /\ r \in 1..Len(requests)
    /\ requests[r].st = "awaiting"
    /\ LET c == requests[r].chan
       IN /\ chans[c].state = "full"
          /\ requests' = [requests EXCEPT
                            ![r].st = "done",
                            ![r].resp = HandlerResponse(requests[r].input.kind, chans[c].msg)]
          /\ chans' = [chans EXCEPT ![c].state = "taken",
                                    ![c].recvs = @ + 1,
                                    ![c].receiver = r]
    /\ UNCHANGED <<pc, pool, sent_order>>
    /\ UNCHANGED ServerRest

NextServer ==
    \/ \E input \in RequestInputs : Arrive(input)
    \/ \E j \in pool : WorkerRun(j)
    \/ \E j \in pool : WorkerPanics(j)
    \/ \E r \in 1..MaxRequests : Receive(r)

SpecServer == InitServer /\ [][NextServer]_vars

\* the response the handler of a request gives when its own closure's
\* message reaches it
ExpectedResponse(input) ==
    HandlerResponse(input.kind, ClosureOutcome(input, overflow_checks).msg)

\* C10: every request has one channel of its own; at most one message is sent
\* on it; it is received at most once, by the handler that made it, and
\* exactly once when the handler has responded; the response is the one
\* computed from the request's own input
C10_OneChannelPerRequest ==
    /\ Len(chans) = Len(requests)
    /\ \A r \in 1..Len(requests) :
        LET c == requests[r].chan
        IN /\ c \in 1..Len(chans)
           /\ chans[c].owner = r
           /\ \A q \in 1..Len(requests) : q # r => requests[q].chan # c
           /\ chans[c].sends <= 1
           /\ chans[c].recvs <= 1
           /\ chans[c].recvs = 1 => chans[c].receiver = r
           /\ (requests[r].st = "done") = (chans[c].recvs = 1)
           /\ requests[r].st = "done" =>
                /\ chans[c].sends = 1
                /\ requests[r].resp = ExpectedResponse(requests[r].input)

\* two requests in flight together whose closures finished in the reverse
\* order of arrival, both answered, with different responses
C10_Witness ==
    /\ Len(requests) = 2
    /\ sent_order = <<2, 1>>
    /\ requests[1].st = "done"
    /\ requests[2].st = "done"
    /\ requests[1].resp # requests[2].resp
    /\ requests[1].resp.status = "ok"

\* ---------------------------------------------------------------------------
\* Directory (batch) mode of the command line (main.rs 56-192): every page of
\* the input directory is handled by one call of the for_each closure, in
\* order (config.single) or on the rayon pool.
\* ---------------------------------------------------------------------------

MaxPages == 2

\* a page of the input directory: its file stem, the step of its handling
\* that returns Err (or "none"), and the canvas and text of its text region
BatchPages ==
    { [stem |-> st, fault |-> f, canvas |-> [width |-> 120, height |-> 100],
       text |-> <<"a", " ", "a">>] :
        st \in {"p1", "p2"},
        f \in {"none", "process", "convert", "write"} }
    \cup { [stem |-> st, fault |-> "none", canvas |-> [width |-> 10, height |-> 40],
            text |-> <<"a">>] : st \in {"p1", "p2"} }

\* walk_image_directory 389-401: the output path of a page
OutputPath(mode, stem) ==
    IF mode = "extract" THEN <<stem, "json">> ELSE <<stem, "_output", "png">>

\* translate_image 292-322 as far as its result goes: Err from one of its `?`,
\* a panic inside write_text, or the final image
TranslateImage(page, pad) ==
    IF page.fault = "process" THEN "err"
    ELSE IF Pass2(Pass1(page.text, page.canvas.width, page.canvas.height, pad),
                  page.text, page.canvas.width, page.canvas.height, pad).st = "panic"
    THEN "panic"
    ELSE "ok"

\* extract_text 325-344 as far as its result goes
ExtractTextResult(page) == IF page.fault = "process" THEN "err" ELSE "ok"

\* the closure of for_each (main.rs 70-96, 104-130, 151-165, 173-187) on one
\* page: the output is written, or the error is printed, or the call panics
PageOutcome(mode, page, pad) ==
    LET r == IF mode = "extract" THEN ExtractTextResult(page) ELSE TranslateImage(page, pad)
    IN IF r = "panic" THEN "panic"
       ELSE IF r = "err" THEN "reported"
       ELSE IF page.fault \in {"convert", "write"} THEN "reported"
       ELSE "written"

\* the page a worker may take next: the first one left when config.single,
\* any one left on the pool
MayTake(i) ==
    /\ i \in 1..Len(batch.pages)
    /\ page_st[i] = "todo"
    /\ batch.single => \A k \in 1..(i - 1) : page_st[k] = "done"

InitBatch ==
    /\ pc = "batch"
    /\ padding = DEFAULT_PADDING
    /\ \E m \in {"translate", "extract"}, sg \in BOOLEAN, ps \in SeqsUpTo(BatchPages, MaxPages) :
        /\ batch = [mode |-> m, single |-> sg, pages |-> ps]
        /\ page_st = [i \in 1..Len(ps) |-> "todo"]
    /\ written = << >>
    /\ reported = << >>
    /\ NmsIdle
    /\ MapIdle
    /\ CfgIdle
    /\ MoreIdle
    /\ text_regions = << >>
    /\ origins = << >>
    /\ DetectIdle
    /\ ReplacerIdle
    /\ LayoutIdle
    /\ ServerIdle

BatchRest == <<padding, text_regions, origins, detect_vars, replacer_vars, layout_vars,
               server_vars, nms_vars, map_vars, cfg_vars, more_vars, batch>>

\* a page is processed and its output written
PageWritten(i) ==
    /\ pc \in {"batch", "panicking"}
    /\ MayTake(i)
    /\ PageOutcome(batch.mode, batch.pages[i], padding) = "written"
    /\ written' = Append(written, [path |-> OutputPath(batch.mode, batch.pages[i].stem),
                                   page |-> i])
    /\ page_st' = [page_st EXCEPT ![i] = "done"]
    /\ UNCHANGED <<pc, reported>>
    /\ UNCHANGED BatchRest

\* processing or saving a page returns Err: eprintln!, nothing written
PageReported(i) ==
    /\ pc \in {"batch", "panicking"}
    /\ MayTake(i)
    /\ PageOutcome(batch.mode, batch.pages[i], padding) = "reported"
    /\ reported' = Append(reported, i)
    /\ page_st' = [page_st EXCEPT ![i] = "done"]
    /\ UNCHANGED <<pc, written>>
    /\ UNCHANGED BatchRest

\* the closure panics on a page: with config.single the panic leaves
\* for_each at once; on the pool it is kept until the workers have stopped
PagePanics(i) ==
    /\ pc \in {"batch", "panicking"}
    /\ MayTake(i)
    /\ PageOutcome(batch.mode, batch.pages[i], padding) = "panic"
    /\ page_st' = [page_st EXCEPT ![i] = "done"]
    /\ pc' = IF batch.single THEN "panicked" ELSE "panicking"
    /\ UNCHANGED <<written, reported>>
    /\ UNCHANGED BatchRest

\* the pool hands the panic to the caller of for_each; pages not yet taken
\* are dropped
PoolUnwinds ==
    /\ pc = "panicking"
    /\ pc' = "panicked"
    /\ UNCHANGED <<page_st, written, reported>>
    /\ UNCHANGED BatchRest

\* for_each is over and the run returns Ok(()) (main.rs 134, 191)
BatchReturns ==
    /\ pc = "batch"
    /\ \A i \in 1..Len(batch.pages) : page_st[i] = "done"
    /\ pc' = "returned"
    /\ UNCHANGED <<page_st, written, reported>>
    /\ UNCHANGED BatchRest

NextBatch ==
    \/ \E i \in 1..MaxPages : PageWritten(i)
    \/ \E i \in 1..MaxPages : PageReported(i)
    \/ \E i \in 1..MaxPages : PagePanics(i)
    \/ PoolUnwinds
    \/ BatchReturns

SpecBatch == InitBatch /\ [][NextBatch]_vars

\* the pages of the batch whose processing and saving succeed
SucceedingPages ==
    { i \in 1..Len(batch.pages) :
        /\ batch.pages[i].fault = "none"
        /\ PageOutcome(batch.mode, batch.pages[i], padding) # "reported" }

\* C11: in batch mode a failing page is reported once and skipped, every
\* other page is written once, and the run returns success: it never ends
\* in a panic, and when it is over the outputs written are those of the
\* succeeding pages, whatever the order the workers took them in
C11_BatchFailureIsolation ==
    /\ pc \notin {"panicking", "panicked"}
    /\ \A k, l \in 1..Len(written) : written[k].page = written[l].page => k = l
    /\ \A k, l \in 1..Len(reported) : reported[k] = reported[l] => k = l
    /\ pc = "returned" =>
        /\ { written[k].page : k \in 1..Len(written) } = SucceedingPages
        /\ { reported[k] : k \in 1..Len(reported) }
             = (1..Len(batch.pages)) \ SucceedingPages

\* ---------------------------------------------------------------------------
\* dnn::nms_boxes as get_detections calls it (detection.rs 195-211), on
\* candidate lists of any geometry
\* ---------------------------------------------------------------------------

MaxCands == 3

\* decoded boxes: three that overlap in a chain, one apart, two of width 0
NmsRects ==
    { Rect(0, 0, 10, 10), Rect(2, 0, 10, 10), Rect(4, 0, 10, 10), Rect(20, 0, 10, 10),
      Rect(0, 0, 0, 10), Rect(30, 5, 0, 10) }

\* confidences of accepted rows (all >= 0.4)
NmsConfs == {40, 60, 90}

NmsCandidates == { [box |-> b, conf |-> c] : b \in NmsRects, c \in NmsConfs }

InitNms ==
    /\ pc = "nms"
    /\ padding = DEFAULT_PADDING
    /\ nms_cands \in SeqsUpTo(NmsCandidates, MaxCands)
    /\ nms_kept = << >>
    /\ nms_again = << >>
    /\ text_regions = << >>
    /\ origins = << >>
    /\ DetectIdle
    /\ ReplacerIdle
    /\ LayoutIdle
    /\ ServerIdle
    /\ BatchIdle
    /\ MapIdle
    /\ CfgIdle
    /\ MoreIdle

NmsRest == <<padding, text_regions, origins, detect_vars, replacer_vars, layout_vars,
             server_vars, batch_vars, map_vars, cfg_vars, more_vars, nms_cands>>

\* detection.rs 197-205: the call
NmsRun ==
    /\ pc = "nms"
    /\ nms_kept' = NmsBoxes(nms_cands)
    /\ pc' = "kept"
    /\ UNCHANGED nms_again
    /\ UNCHANGED NmsRest

\* the boxes and confidences that were kept
KeptCandidates == [k \in 1..Len(nms_kept) |-> nms_cands[nms_kept[k]]]

\* the same call on the kept boxes with their confidences
NmsRerun ==
    /\ pc = "kept"
    /\ nms_again' = NmsBoxes(KeptCandidates)
    /\ pc' = "rekept"
    /\ UNCHANGED nms_kept
    /\ UNCHANGED NmsRest

NextNms == NmsRun \/ NmsRerun

SpecNms == InitNms /\ [][NextNms]_vars

\* intersection over union above 0.45, as areas
IoUAbove(a, b) ==
    LET inter == Area(RectAnd(a, b))
    IN 100 * inter > 45 * (Area(a) + Area(b) - inter)

KeptSet == { nms_kept[k] : k \in 1..Len(nms_kept) }

\* C12: every kept box has a score above 0.25, no two kept boxes have an IoU
\* above 0.45, and every candidate above the score threshold that was not
\* kept has an IoU above 0.45 with a kept box whose score is at least its own
C12_NmsGreedy ==
    pc \in {"kept", "rekept"} =>
        /\ \A i \in KeptSet : nms_cands[i].conf > 25
        /\ \A i, j \in KeptSet :
            i # j => ~IoUAbove(nms_cands[i].box, nms_cands[j].box)
        /\ \A i \in (1..Len(nms_cands)) \ KeptSet :
            nms_cands[i].conf > 25 =>
                \E j \in KeptSet :
                    /\ IoUAbove(nms_cands[i].box, nms_cands[j].box)
                    /\ nms_cands[j].conf >= nms_cands[i].conf

\* C13: nms_boxes on the kept boxes, with their scores, keeps all of them in
\* the same order
C13_NmsIdempotent ==
    pc = "rekept" =>
        /\ Len(nms_again) = Len(nms_kept)
        /\ \A k \in 1..Len(nms_again) : nms_again[k] = k

\* a run that suppressed a box between two kept ones that it overlaps both
C13_Witness ==
    /\ pc = "rekept"
    /\ Len(nms_cands) = 3
    /\ Len(nms_kept) = 2
    /\ \E i \in (1..3) \ KeptSet :
        \A j \in KeptSet : IoUAbove(nms_cands[i].box, nms_cands[j].box)

\* the divisors (dx, dy) of the scale for a rectangle width and a number of
\* words n, by the rules as listed
ScaleRule(width, n) ==
    CASE n >= 16 -> <<14, 16>>
      [] n >= 14 /\ n < 16 -> <<12, 14>>
      [] n >= 12 /\ n < 14 -> <<10, 12>>
      [] n >= 10 /\ n < 12 -> <<8, 10>>
      [] n <= 2 -> <<7, 9>>
      [] n >= 3 /\ n <= 9 /\ width < 55 -> <<8, 12>>
      [] n >= 3 /\ n <= 9 /\ width >= 55 /\ width < 100 -> <<10, 14>>
      [] n >= 3 /\ n <= 9 /\ width >= 100 -> <<9, 12>>

\* C15: the scale write_text uses is (height/dx, height/dy) with (dx, dy)
\* given by the word-count rules when one matches, for every width, and by
\* the width rules otherwise; the words are the pieces between the spaces
C15_ScaleRules ==
    pc \in {"wrapped", "laid", "panic"} =>
        LET d == ScaleRule(canvas.width, Len(Split(text)))
        IN font_scale = [height |-> canvas.height, dx |-> d[1], dy |-> d[2]]

\* width 200, height 100 and a text of two words: the scale is (100/7, 100/9)
C15_Witness ==
    /\ pc = "laid"
    /\ canvas = [width |-> 200, height |-> 100]
    /\ text = <<"a", " ", "W">>
    /\ font_scale = [height |-> 100, dx |-> 7, dy |-> 9]

\* the text is one token without a space, wider than the available width
OneWideToken ==
    /\ text # << >>
    /\ \A i \in 1..Len(text) : text[i] # " "
    /\ TextSize(text, font_scale) > LineLimit(canvas.width, padding)

\* C16: a text that is one unbroken token wider than the available width is
\* laid out as exactly two lines: a non-empty prefix of the token followed
\* by "-", which fits the available width with its hyphen (the prefix and
\* the hyphen measured as the code measures them), and then the rest of
\* the token
C16_SingleTokenHyphenated ==
    pc \in {"laid", "panic"} /\ OneWideToken =>
        /\ pc = "laid"
        /\ Len(lines) = 2
        /\ \E n \in 1..(Len(text) - 1) :
            /\ lines[1] = SubSeq(text, 1, n) \o <<"-">>
            /\ lines[2] = SubSeq(text, n + 1, Len(text))
            /\ TextSize(SubSeq(text, 1, n), font_scale) + TextSize(<<"-">>, font_scale)
                 <= LineLimit(canvas.width, padding)

\* ---------------------------------------------------------------------------
\* Extraction of a page to a mapping and its way back (main.rs 325-366)
\* ---------------------------------------------------------------------------

MaxOcrRegions == 3

\* the strings the OCR may return for a region
OcrStrings == {"A", "B", "C", "D"}

\* the order of the strings as keys of a BTreeMap
KeyRank(k) == CASE k = "A" -> 1 [] k = "B" -> 2 [] k = "C" -> 3 [] OTHER -> 4

\* position of key k in the map m, 0 if it is not a key of m
RECURSIVE KeyIndex(_, _, _)
KeyIndex(m, k, i) ==
    IF i > Len(m) THEN 0
    ELSE IF m[i][1] = k THEN i
    ELSE KeyIndex(m, k, i + 1)

\* IndexMap::insert: a new key goes to the end; the value of a key already
\* there is replaced and the key keeps its place
MapInsert(m, k, v) ==
    IF KeyIndex(m, k, 1) = 0 THEN Append(m, <<k, v>>)
    ELSE [m EXCEPT ![KeyIndex(m, k, 1)] = <<k, v>>]

\* main.rs 333-339: the fold over extracted_text
RECURSIVE FoldInsert(_, _)
FoldInsert(m, texts) ==
    IF texts = << >> THEN m
    ELSE FoldInsert(MapInsert(m, Head(texts), ""), Tail(texts))

\* the entries of a map by ascending key
RECURSIVE SortedByKey(_)
SortedByKey(m) ==
    IF m = << >> THEN << >>
    ELSE LET i == CHOOSE a \in 1..Len(m) :
                      \A b \in 1..Len(m) : KeyRank(m[a][1]) <= KeyRank(m[b][1])
         IN <<m[i]>> \o SortedByKey([k \in 1..(Len(m) - 1) |-> IF k < i THEN m[k] ELSE m[k + 1]])

InitMap ==
    /\ pc = "ocr"
    /\ padding = DEFAULT_PADDING
    /\ extracted_text \in SeqsUpTo(OcrStrings, MaxOcrRegions)
    /\ text_pairs = << >>
    /\ applied = << >>
    /\ text_regions = << >>
    /\ origins = << >>
    /\ DetectIdle
    /\ ReplacerIdle
    /\ LayoutIdle
    /\ ServerIdle
    /\ BatchIdle
    /\ NmsIdle
    /\ CfgIdle
    /\ MoreIdle

MapRest == <<padding, text_regions, origins, detect_vars, replacer_vars, layout_vars,
             server_vars, batch_vars, nms_vars, cfg_vars, more_vars,
             extracted_text>>

\* extract_text 333-341 where json! keeps the order of insertion
\* (serde_json built with preserve_order)
ExtractKeepsOrder ==
    /\ pc = "ocr"
    /\ text_pairs' = FoldInsert(<< >>, extracted_text)
    /\ pc' = "mapped"
    /\ UNCHANGED applied
    /\ UNCHANGED MapRest

\* extract_text 333-341 where json! builds a BTreeMap: the keys come out
\* sorted
ExtractSortsKeys ==
    /\ pc = "ocr"
    /\ text_pairs' = SortedByKey(FoldInsert(<< >>, extracted_text))
    /\ pc' = "mapped"
    /\ UNCHANGED applied
    /\ UNCHANGED MapRest

\* replace_text 347-366 and write_text 126-128: the i-th entry of the mapping
\* goes to the i-th region
ReplaceApplies ==
    /\ pc = "mapped"
    /\ applied' = [i \in 1..MinOf(Len(text_pairs), Len(extracted_text)) |-> text_pairs[i][1]]
    /\ pc' = "applied"
    /\ UNCHANGED text_pairs
    /\ UNCHANGED MapRest

NextMap == ExtractKeepsOrder \/ ExtractSortsKeys \/ ReplaceApplies

SpecMap == InitMap /\ [][NextMap]_vars

\* C17: the mapping has unique keys and one entry per detected region, the
\* i-th entry being the text of the i-th region, and on the way back every
\* region is given the entry extracted from it, also when two regions have
\* the same text
C17_MappingOrder ==
    /\ pc \in {"mapped", "applied"} =>
        /\ \A i, j \in 1..Len(text_pairs) : text_pairs[i][1] = text_pairs[j][1] => i = j
        /\ Len(text_pairs) = Len(extracted_text)
        /\ \A i \in 1..Len(text_pairs) : text_pairs[i][1] = extracted_text[i]
    /\ pc = "applied" =>
        /\ Len(applied) = Len(extracted_text)
        /\ \A i \in 1..Len(applied) : applied[i] = extracted_text[i]

\* ---------------------------------------------------------------------
\* Config::get_output_path (config.rs 244-336)

\* the paths given with --input and --output
InputPaths == {"./page.png", "./pages"}

OutputPaths == {"./test.json", "./out.png", "./outdir", "./out.d"}

\* the paths that may be directories when the program starts
DirCandidates == {"./outdir", "./test.json", "./pages", "./pages_text", "./pages_output"}

\* Path::extension, "" where the path has none
Extension(p) ==
    CASE p = "./test.json" -> "json"
      [] p = "./out.png" -> "png"
      [] p = "./page.png" -> "png"
      [] p = "./out.d" -> "d"
      [] OTHER -> ""

\* Path::file_stem
FileStem(p) ==
    CASE p = "./page.png" -> "page"
      [] p = "./pages" -> "pages"
      [] p = "./test.json" -> "test"
      [] p = "./out.png" -> "out"
      [] p = "./out.d" -> "out"
      [] OTHER -> "outdir"

NoOutput == [some |-> FALSE]

SomeOutput(p) == [some |-> TRUE, path |-> p]

PathOk(p) == [st |-> "ok", path |-> p]

PathErr(m) == [st |-> "err", msg |-> m]

\* get_input_mode 182-207: a path with an extension is an image, one without
\* has to be a directory
GetInputMode(input, dirs) ==
    IF Extension(input) # "" THEN "Image"
    ELSE IF input \in dirs THEN "Directory"
    ELSE "none"

\* std::fs::create_dir: fails on a path that exists, and may fail for the
\* operating system's reasons
CreateDir(p, dirs, create_ok) ==
    IF p \in dirs THEN [ok |-> FALSE, msg |-> "File exists", dirs |-> dirs]
    ELSE IF create_ok THEN [ok |-> TRUE, msg |-> "", dirs |-> dirs \cup {p}]
    ELSE [ok |-> FALSE, msg |-> "Permission denied", dirs |-> dirs]

\* 253-263: the check of an explicit output path in Extraction mode; "" when
\* it passes
ExtractionCheck(path, dirs) ==
    IF Extension(path) # ""
    THEN IF Extension(path) = "json" THEN ""
         ELSE "Output path must be a JSON if running in extract mode."
    ELSE IF path \notin dirs
         THEN "Output path must lead to a directory or json file for writing."
         ELSE ""

ReplacementCheckFirstOnly(path, input_mode, dirs) ==
    IF path \in dirs /\ input_mode = "Image"
    THEN "Output and Input must be of the same type."
    ELSE ""

\* 264-275: the two ensure! of Replacement mode; "" when both pass
ReplacementCheck(path, input_mode, dirs) ==
    IF path \in dirs /\ input_mode = "Image"
    THEN "Output and Input must be of the same type."
    ELSE IF ~(path \in dirs \/ ~(input_mode = "Directory"))
    THEN "Output and Input must be of the same type."
    ELSE ""

\* 281-333: the default path when no output was given
DefaultOutput(input_path, runtime_mode, input_mode, dirs, create_ok) ==
    LET input_stem == FileStem(input_path)
        default_text_path == "./" \o input_stem
        default_output_path == "./" \o input_stem \o "_output"
    IN IF runtime_mode = "Extraction"
       THEN IF input_mode = "Image"
            THEN [result |-> PathOk(default_text_path \o ".json"), dirs |-> dirs]
            ELSE LET text_dir == default_text_path \o "_text"
                 IN IF text_dir \notin dirs
                    THEN LET made == CreateDir(default_text_path, dirs, create_ok)
                         IN IF made.ok
                            THEN [result |-> PathOk(text_dir), dirs |-> made.dirs]
                            ELSE [result |-> PathErr(made.msg), dirs |-> dirs]
                    ELSE [result |-> PathOk(text_dir), dirs |-> dirs]
       ELSE IF input_mode = "Image"
            THEN [result |-> PathOk(default_output_path \o ".png"), dirs |-> dirs]
            ELSE IF default_output_path \notin dirs
                 THEN LET made == CreateDir(default_output_path, dirs, create_ok)
                      IN IF made.ok
                         THEN [result |-> PathOk(default_output_path), dirs |-> made.dirs]
                         ELSE [result |-> PathErr(made.msg), dirs |-> dirs]
                 ELSE [result |-> PathOk(default_output_path), dirs |-> dirs]

\* get_output_path 244-336
GetOutputPath(input_path, out, runtime_mode, input_mode, dirs, create_ok) ==
    IF out.some
    THEN LET msg == IF runtime_mode = "Extraction"
                    THEN ExtractionCheck(out.path, dirs)
                    ELSE ReplacementCheck(out.path, input_mode, dirs)
         IN [result |-> IF msg = "" THEN PathOk(out.path) ELSE PathErr(msg),
             dirs |-> dirs]
    ELSE DefaultOutput(input_path, runtime_mode, input_mode, dirs, create_ok)

\* Config::parse 112-123 up to the call of get_output_path, the input mode
\* being the one get_input_mode returned
InitCfg ==
    /\ pc = "config"
    /\ padding = DEFAULT_PADDING
    /\ \E rm \in {"Extraction", "Replacement"}, input \in InputPaths,
          out \in {NoOutput} \cup { SomeOutput(p) : p \in OutputPaths },
          dirs \in SUBSET DirCandidates :
            /\ GetInputMode(input, dirs) # "none"
            /\ cfg = [mode |-> "parse", runtime_mode |-> rm, input |-> input,
                      input_mode |-> GetInputMode(input, dirs), output |-> out,
                      dirs |-> dirs]
    /\ cfg_result = [st |-> "none"]
    /\ text_regions = << >>
    /\ origins = << >>
    /\ DetectIdle
    /\ ReplacerIdle
    /\ LayoutIdle
    /\ ServerIdle
    /\ BatchIdle
    /\ NmsIdle
    /\ MapIdle
    /\ MoreIdle

CfgRest == <<padding, text_regions, origins, detect_vars, replacer_vars, layout_vars,
             server_vars, batch_vars, nms_vars, map_vars, more_vars>>

\* Config::parse 123: the call of get_output_path
GetOutputPathStep ==
    /\ pc = "config"
    /\ \E create_ok \in BOOLEAN :
        \E o \in {GetOutputPath(cfg.input, cfg.output, cfg.runtime_mode,
                                cfg.input_mode, cfg.dirs, create_ok)} :
            /\ cfg_result' = o.result
            /\ cfg' = [cfg EXCEPT !.dirs = o.dirs]
    /\ pc' = "configured"
    /\ UNCHANGED CfgRest

NextCfg == GetOutputPathStep

SpecCfg == InitCfg /\ [][NextCfg]_vars

\* C18: with an explicit output path in Replacement mode get_output_path
\* returns the path unchanged exactly when the output is a directory and the
\* input mode is Directory, or the output is not a directory and the input
\* mode is Image; in the two mixed cases it fails with "Output and Input must
\* be of the same type."
C18_ReplacementOutput ==
    (pc = "configured" /\ cfg.runtime_mode = "Replacement" /\ cfg.output.some) =>
        LET is_dir == cfg.output.path \in cfg.dirs
        IN IF \/ is_dir /\ cfg.input_mode = "Directory"
              \/ ~is_dir /\ cfg.input_mode = "Image"
           THEN cfg_result = [st |-> "ok", path |-> cfg.output.path]
           ELSE cfg_result = [st |-> "err",
                              msg |-> "Output and Input must be of the same type."]

C18_Witness ==
    /\ pc = "configured"
    /\ cfg.runtime_mode = "Replacement"
    /\ cfg.input_mode = "Directory"
    /\ cfg.output = [some |-> TRUE, path |-> "./out.png"]
    /\ "./out.png" \notin cfg.dirs
    /\ cfg_result = [st |-> "err", msg |-> "Output and Input must be of the same type."]

-----------------------------------------------------------------------------
(* expand_text_region: the corner runs and the decision *)

\* the number of consecutive pixels equal to val met from (x, y) in steps of
\* (dx, dy), ending at the first other pixel or at the edge of the image
RECURSIVE DiagRun(_, _, _, _, _, _)
DiagRun(img, x, y, dx, dy, val) ==
    IF InImage(img, x + dx, y + dy) /\ GetPixel(img, x + dx, y + dy) = val
    THEN 1 + DiagRun(img, x + dx, y + dy, dx, dy, val)
    ELSE 0

\* the run of the corner at (x, y), a pixel of the image, along (dx, dy)
CornerRun(img, x, y, dx, dy) == DiagRun(img, x, y, dx, dy, GetPixel(img, x, y))

\* C19: the run length recorded for each corner of the seed box is the number
\* of consecutive pixels along the corner's outward diagonal that equal the
\* corner's own pixel, up to the first mismatch or the edge of the image
C19_CornerRuns ==
    pc \in {"decide", "returned"} =>
        /\ corners.tl.len = CornerRun(original_image, seed.x, seed.y, -1, -1)
        /\ InImage(original_image, seed.x + seed.width, seed.y) =>
              corners.tr.len =
                  CornerRun(original_image, seed.x + seed.width, seed.y, 1, -1)
        /\ InImage(original_image, seed.x, seed.y + seed.height) =>
              corners.bl.len =
                  CornerRun(original_image, seed.x, seed.y + seed.height, -1, 1)
        /\ InImage(original_image, seed.x + seed.width, seed.y + seed.height) =>
              corners.br.len =
                  CornerRun(original_image, seed.x + seed.width, seed.y + seed.height, 1, 1)

\* C20: the main-diagonal pair is selected when tl_len + br_len is smaller
\* than tr_len + bl_len and the anti-diagonal pair otherwise, and the origin,
\* width and height returned are those of the rectangle spanned by the two
\* grown corners of the selected pair
C20_Decision ==
    pc = "returned" =>
        /\ expanded.st = "ok"
        /\ IF corners.tl.len + corners.br.len < corners.tr.len + corners.bl.len
           THEN /\ expanded.diag = "TopLeftBottomRight"
                /\ expanded.x = corners.tl.x
                /\ expanded.y = corners.tl.y
                /\ expanded.width = corners.br.x - corners.tl.x
                /\ expanded.height = corners.br.y - corners.tl.y
           ELSE /\ expanded.diag = "TopRightBottomLeft"
                /\ expanded.width = corners.tr.x - corners.bl.x
                /\ expanded.height = corners.bl.y - corners.tr.y
                /\ expanded.x = corners.tr.x - expanded.width
                /\ expanded.y = corners.tr.y
                /\ expanded.x = corners.bl.x

\* a decision after the top-left corner has grown, on a seed box with area
C20_Witness ==
    /\ pc = "returned"
    /\ expanded.st = "ok"
    /\ expanded.diag = "TopRightBottomLeft"
    /\ corners.tl.len = 2
    /\ seed.width = 2
    /\ seed.height = 1

\* C21: for a seed box whose origin is a pixel of the image and that has a
\* corner on or next to the edge of the image, expand_text_region returns
\* normally, without panic, and the run of that corner is zero
C21_BoundaryCorners ==
    /\ (InImage(original_image, seed.x, seed.y) /\ (seed.x <= 1 \/ seed.y <= 1)) =>
          /\ pc # "panic"
          /\ pc \in {"decide", "returned"} => corners.tl.len = 0
          /\ pc = "returned" => expanded.st = "ok"
    /\ (InImage(original_image, seed.x, seed.y)
            /\ pc \in {"decide", "returned"}
            /\ seed.x + seed.width >= Cols(original_image) - 1) =>
          corners.tr.len = 0 /\ corners.br.len = 0
    /\ (InImage(original_image, seed.x, seed.y)
            /\ pc \in {"decide", "returned"}
            /\ seed.y + seed.height >= Rows(original_image) - 1) =>
          corners.bl.len = 0 /\ corners.br.len = 0

-----------------------------------------------------------------------------
(* Replacer::write_text and Replacer::get_blank_mats on the lists given to  *)
(* Replacer::new                                                            *)

\* replacer.rs 126-354: the body of the loop of write_text for one text, the
\* origin and the region being those of its index
WriteTextOne(img, origin, region, txt, pad, checks) ==
    LET e == ExpandTextRegion(img, Rect(origin[1], origin[2], region.cols, region.rows),
                              checks)
    IN IF e.st = "panic" THEN [st |-> "panic"]
       ELSE IF ~RoiOk(Cols(img), Rows(img), Rect(e.x, e.y, e.width, e.height))
       THEN [st |-> "err"]
       ELSE LET laid == Pass2(Pass1(txt, e.width, e.height, pad), txt,
                              e.width, e.height, pad)
            IN IF laid.st = "panic" THEN [st |-> "panic"]
               ELSE [st |-> "ok",
                     patch |-> [mat |-> GetBlankBuffer(e.width, e.height),
                                lines |-> laid.out,
                                origin |-> <<e.x, e.y>>,
                                diag |-> e.diag]]

\* replacer.rs 125-357: the loop over the translated texts; self.origins[i]
\* panics past the end of the origins, original_text_regions.get(i)? is an
\* error past the end of the regions
RECURSIVE WriteTextFrom(_, _, _, _, _, _, _)
WriteTextFrom(img, orig, regions, texts, pad, checks, i) ==
    IF i > Len(texts) THEN [st |-> "ok", mats |-> << >>]
    ELSE IF i > Len(orig) THEN [st |-> "panic"]
    ELSE IF i > Len(regions) THEN [st |-> "err"]
    ELSE LET one == WriteTextOne(img, orig[i], regions[i], texts[i], pad, checks)
         IN IF one.st # "ok" THEN [st |-> one.st]
            ELSE LET rest == WriteTextFrom(img, orig, regions, texts, pad, checks, i + 1)
                 IN IF rest.st # "ok" THEN rest
                    ELSE [st |-> "ok", mats |-> <<one.patch>> \o rest.mats]

\* Replacer::write_text
WriteText(img, orig, regions, rt, pad, checks) ==
    IF ~rt.some THEN [st |-> "err"]
    ELSE WriteTextFrom(img, orig, regions, rt.list, pad, checks, 1)

\* the regions, origins and texts a Replacer is made of
PatchSeeds == { Rect(1, 1, 2, 2), Rect(2, 2, 2, 1) }

PatchTexts == { <<"a">>, <<"a", " ", "W">> }

\* Replacer::new 41-55: the three lists are taken as they are given
InitPatch ==
    /\ pc = "replacer"
    /\ padding \in {0, DEFAULT_PADDING}
    /\ text_regions \in SeqsUpTo({ RoiView(r) : r \in PatchSeeds }, MaxRegions)
    /\ origins \in SeqsUpTo({ <<r.x, r.y>> : r \in PatchSeeds }, MaxRegions)
    /\ rep_text \in {[some |-> FALSE]}
                    \cup { [some |-> TRUE, list |-> l] : l \in SeqsUpTo(PatchTexts, MaxRegions) }
    /\ patches = [st |-> "none"]
    /\ DetectIdle
    /\ original_image \in {Page("uniform"), Page("bubble")}
    /\ overflow_checks \in BOOLEAN
    /\ seed = [x |-> 0, y |-> 0, width |-> 0, height |-> 0]
    /\ corners = << >>
    /\ expanded = [st |-> "none"]
    /\ blank_mats = << >>
    /\ patch_i = 0
    /\ temp_image = << >>
    /\ prev_image = << >>
    /\ second = [st |-> "none"]
    /\ LayoutIdle
    /\ ServerIdle
    /\ BatchIdle
    /\ NmsIdle
    /\ MapIdle
    /\ CfgIdle
    /\ PairIdle

PatchRest == <<padding, text_regions, origins, detect_vars, replacer_vars, layout_vars,
               server_vars, batch_vars, nms_vars, map_vars, cfg_vars, pair_vars, rep_text>>

\* replace_text_regions 74: self.write_text()
WriteTextStep ==
    /\ pc = "replacer"
    /\ \E o \in {WriteText(original_image, origins, text_regions, rep_text, padding,
                           overflow_checks)} :
         patches' = o
    /\ pc' = "written"
    /\ UNCHANGED PatchRest

\* clean_page 59: self.get_blank_mats()
GetBlankMatsStep ==
    /\ pc = "replacer"
    /\ \E o \in {GetBlankMats(original_image, origins, text_regions, overflow_checks, 1)} :
         patches' = o
    /\ pc' = "blanked"
    /\ UNCHANGED PatchRest

NextPatch == WriteTextStep \/ GetBlankMatsStep

SpecPatch == InitPatch /\ [][NextPatch]_vars

\* C22: write_text and get_blank_mats return an error or one patch per
\* detected region, patch i carrying the expanded origin of region i; they do
\* not panic and leave no region without a patch
C22_OnePatchPerRegion ==
    pc \in {"written", "blanked"} =>
        \/ patches.st = "err"
        \/ /\ patches.st = "ok"
           /\ Len(patches.mats) = Len(text_regions)
           /\ Len(origins) >= Len(text_regions)
           /\ \A i \in 1..Len(text_regions) :
                LET e == ExpandTextRegion(original_image,
                             Rect(origins[i][1], origins[i][2],
                                  text_regions[i].cols, text_regions[i].rows),
                             overflow_checks)
                IN patches.mats[i].origin = <<e.x, e.y>>

-----------------------------------------------------------------------------
(* write_text: the lines of the first pass *)

\* the width of a line as the first pass accounts for it: the widths of its
\* words and one space width per gap
RECURSIVE WordsWidth(_, _)
WordsWidth(words, scale) ==
    IF words = << >> THEN 0
    ELSE IF Len(words) = 1 THEN TextSize(words[1], scale)
    ELSE TextSize(words[1], scale) + TextSize(<<" ">>, scale)
             + WordsWidth(Tail(words), scale)

\* C23: the first pass accounts for every word of the current line, its first
\* word included, so that every line of two or more words it produces is at
\* most the available width wide
C23_Pass1Greedy ==
    pc \in {"wrapped", "laid"} =>
        \A i \in 1..Len(temp_lines) :
            Len(Split(temp_lines[i])) >= 2 =>
                WordsWidth(Split(temp_lines[i]), font_scale)
                    <= LineLimit(canvas.width, padding)

\* C24: for every text, canvas and padding the second pass ends and returns
\* its lines: neither the character loop nor the word loop pops from an
\* empty vector
C24_Pass2NeverPopsEmpty ==
    /\ pc # "panic"
    /\ pc = "wrapped" =>
          Pass2(temp_lines, text, canvas.width, canvas.height, padding).st = "ok"

-----------------------------------------------------------------------------
(* write_text: the lines against the text *)

\* the pieces of a split that are not empty
NonEmptyWords(words) == SelectSeq(words, LAMBDA w : w # << >>)

\* the text read back from the lines: a line ending in the hyphen of the
\* second pass is joined with the line after it, the other lines are joined
\* by single spaces (the texts laid out hold no hyphen of their own)
RECURSIVE ReadBack(_)
ReadBack(ls) ==
    IF ls = << >> THEN << >>
    ELSE IF Len(ls) = 1 THEN ls[1]
    ELSE IF ls[1] # << >> /\ ls[1][Len(ls[1])] = "-"
    THEN ReadBack(<<SubSeq(ls[1], 1, Len(ls[1]) - 1) \o ls[2]>> \o Tail(Tail(ls)))
    ELSE ls[1] \o <<" ">> \o ReadBack(Tail(ls))

\* C25: no output line is empty, and the lines read back in order, with the
\* inserted hyphens removed, are the non-empty words of the text in their
\* order
C25_ContentPreserved ==
    pc = "laid" =>
        /\ \A i \in 1..Len(lines) : lines[i] # << >>
        /\ NonEmptyWords(Split(ReadBack(lines))) = NonEmptyWords(Split(text))

-----------------------------------------------------------------------------
(* the replace loop: the patches in list order *)

\* the patches among the first k that cover pixel (c, r)
Covering(k, c, r) == { i \in 1..k : InPatch(blank_mats[i], c, r) }

\* C26: after the first k patches have been spliced, every pixel covered by
\* one of them shows the pixel of the last patch of the list that covers it,
\* and every other pixel is the original's: the patches are applied in list
\* order, each to the result of those before it
C26_PatchesInListOrder ==
    (pc \in {"replace", "done"} /\ patch_i >= 1) =>
        \A c \in 0..(Cols(original_image) - 1), r \in 0..(Rows(original_image) - 1) :
            LET over == Covering(patch_i - 1, c, r)
            IN GetPixel(temp_image, c, r) =
                 IF over = {} THEN GetPixel(original_image, c, r)
                 ELSE LET last == CHOOSE i \in over : \A j \in over : j <= i
                      IN GetPixel(blank_mats[last].mat,
                                  c - blank_mats[last].origin[1],
                                  r - blank_mats[last].origin[2])

\* two patches, the second covering a part of the first, both spliced
C26_Witness ==
    /\ pc = "done"
    /\ Len(blank_mats) = 2
    /\ original_image = Page("distinct")
    /\ \E c \in 0..(PageCols - 1), r \in 0..(PageRows - 1) : Covering(2, c, r) = {1, 2}
    /\ \E c \in 0..(PageCols - 1), r \in 0..(PageRows - 1) : Covering(2, c, r) = {1}
    /\ blank_mats[1].mat # blank_mats[2].mat

-----------------------------------------------------------------------------
(* the server under a fair worker pool and a fair async runtime *)

\* a closure given to rayon::spawn is run by a pool thread, and a handler
\* whose channel holds a message is polled again
SpecServerFair ==
    /\ SpecServer
    /\ WF_vars(\E j \in pool : WorkerRun(j) \/ WorkerPanics(j))
    /\ WF_vars(\E r \in 1..MaxRequests : Receive(r))

\* C27: every request that reaches a handler is answered in the end, with a
\* response or an error response
C27_EveryRequestAnswered ==
    \A r \in 1..MaxRequests :
        (Len(requests) >= r) ~> (Len(requests) >= r /\ requests[r].st = "done")

-----------------------------------------------------------------------------
(* get_detections: the scale factors *)

\* the box of a row (cx, cy, w, h), in hundredths, scaled by the factors
\* width / 640 and height / 640 of an image of the given width and height
ScaledBox(row, width, height) ==
    [x      |-> TruncDiv((2 * row[1] - row[3]) * width, 2 * 640 * 100),
     y      |-> TruncDiv((2 * row[2] - row[4]) * height, 2 * 640 * 100),
     width  |-> TruncDiv(row[3] * width, 640 * 100),
     height |-> TruncDiv(row[4] * height, 640 * 100)]

\* C28 as stated: the factors are the width and the height of the original
\* image over 640, on non-square images too
C28_FactorsFromOriginal ==
    \A k \in 1..Len(boxes) :
        boxes[k].box = ScaledBox(output[boxes[k].row], image_size[1], image_size[2])

\* C28: the factors are the width and the height of the image format_image
\* returns, the original padded to a square, over 640: both are the larger
\* of the original width and height over 640
C28_FactorsFromSquare ==
    \A k \in 1..Len(boxes) :
        LET side == IF image_size[1] >= image_size[2] THEN image_size[1] ELSE image_size[2]
        IN boxes[k].box = ScaledBox(output[boxes[k].row], side, side)

\* a row 50 high decoded on the page 1280 wide and 640 high
C28_Witness ==
    /\ pc = "crop"
    /\ image_size = <<1280, 640>>
    /\ Len(boxes) >= 1
    /\ output[boxes[1].row][4] = 5000
    /\ boxes[1].box.height = 100

-----------------------------------------------------------------------------
(* replace mode on a directory: main.rs 206-286, 369-479 *)

MaxFiles == 3

\* the file stems of a directory
Stems == 1..MaxFiles

\* a directory walk: the files of the directory, each once, in the order the
\* file system gives them
Walks == { w \in SeqsUpTo(Stems, MaxFiles) : \A i, j \in 1..Len(w) : w[i] = w[j] => i = j }

\* validation.rs 43-66: every image stem is the stem of a text file
ValidateReplaceMode(input_stems, text_paths) ==
    \A i \in 1..Len(input_stems) : \E t \in 1..Len(text_paths) : text_paths[t] = input_stems[i]

\* main.rs 212-215 / 253-256: input_images zipped with text_data
ZipPairs(input_images, text_data) ==
    [i \in 1..MinOf(Len(input_images), Len(text_data)) |-> <<input_images[i], text_data[i]>>]

\* walk_image_directory and the walk of walk_text_directory have run
InitPair ==
    /\ pc = "walked"
    /\ padding = DEFAULT_PADDING
    /\ listing \in [images : Walks, texts : Walks]
    /\ pairs = << >>
    /\ text_regions = << >>
    /\ origins = << >>
    /\ DetectIdle
    /\ ReplacerIdle
    /\ LayoutIdle
    /\ ServerIdle
    /\ BatchIdle
    /\ NmsIdle
    /\ MapIdle
    /\ CfgIdle
    /\ PatchIdle

PairRest == <<padding, text_regions, origins, detect_vars, replacer_vars, layout_vars,
              server_vars, batch_vars, nms_vars, map_vars, cfg_vars, patch_vars, listing>>

\* walk_text_directory 459: validate_replace_mode(...)? returns the error
ValidateFails ==
    /\ pc = "walked"
    /\ ~ValidateReplaceMode(listing.images, listing.texts)
    /\ pc' = "err"
    /\ UNCHANGED pairs
    /\ UNCHANGED PairRest

\* replace_mode 210-286: replace_text is called on every pair of the zip
ReplacePairs ==
    /\ pc = "walked"
    /\ ValidateReplaceMode(listing.images, listing.texts)
    /\ pairs' = ZipPairs(listing.images, listing.texts)
    /\ pc' = "paired"
    /\ UNCHANGED PairRest

NextPair == ValidateFails \/ ReplacePairs

SpecPair == InitPair /\ [][NextPair]_vars

\* C29: for every pair of listings that validate_replace_mode accepts, every
\* image is replaced, and with the text file of its own stem
C29_PairedByStem ==
    pc = "paired" =>
        /\ Len(pairs) = Len(listing.images)
        /\ \A i \in 1..Len(pairs) :
            pairs[i][1] = listing.images[i] /\ pairs[i][2] = listing.images[i]

====
